---- MODULE Spec2Model ----
(***************************************************************************)
(* Model of the Resolvix log collector daemon: the alert engine            *)
(* (alert_manager.py), the suppression matcher (suppression_checker.py),   *)
(* the per-file log tailer and publisher and the control API               *)
(* (log_collector_daemon.py), the telemetry queue (telemetry_queue.py),    *)
(* the telemetry collector and the live-stream servers (telemetry_ws.py,   *)
(* livelogs.py), the configuration store (config_store.py) and the worker  *)
(* threads of the daemon.  Each subsystem has its own specification over   *)
(* the one set of variables.                                               *)
(*                                                                         *)
(* Python's None is modelled as 0 for instants (time.time() is never 0)    *)
(* and as the string "NULL" for optional text columns.                     *)
(***************************************************************************)
EXTENDS Integers, Sequences, FiniteSets, TLC

\* ------------------------------------------------------------------------
\* Bounds of the model
\* ------------------------------------------------------------------------
MaxSamples == 4      \* number of metric snapshots taken by the sampler

\* Seconds elapsed between two consecutive snapshots
Deltas == {60, 300, 1800, 14400}

\* ------------------------------------------------------------------------
\* alert_config.py
\* ------------------------------------------------------------------------
ALERT_THRESHOLDS ==
  [ cpu_critical       |-> [threshold |-> 90,  duration |-> 300, cooldown |-> 1800],
    cpu_high           |-> [threshold |-> 75,  duration |-> 600, cooldown |-> 3600],
    memory_critical    |-> [threshold |-> 95,  duration |-> 300, cooldown |-> 1800],
    memory_high        |-> [threshold |-> 85,  duration |-> 600, cooldown |-> 3600],
    disk_critical      |-> [threshold |-> 90,  duration |-> 0,   cooldown |-> 7200],
    disk_high          |-> [threshold |-> 80,  duration |-> 0,   cooldown |-> 14400],
    network_spike      |-> [threshold_multiplier |-> 5,
                                               duration |-> 60,  cooldown |-> 1800],
    high_process_count |-> [threshold |-> 500, duration |-> 300, cooldown |-> 3600] ]

AlertTypes == DOMAIN ALERT_THRESHOLDS

\* Minimum number of baseline samples before check_network_spike evaluates
MinBaselineSamples == 20

\* Metric snapshots handed to the alert checks.  disk = -1: the snapshot has
\* no entry for the root mount.
Normal == [cpu |-> 50, memory |-> 50, disk |-> 50, processes |-> 100,
           sent |-> 1, recv |-> 1]

Snapshots ==
  { Normal,
    [Normal EXCEPT !.cpu = 80],
    [Normal EXCEPT !.cpu = 92],
    [Normal EXCEPT !.memory = 90],
    [Normal EXCEPT !.memory = 96, !.disk = -1],
    [Normal EXCEPT !.disk = 85],
    [Normal EXCEPT !.disk = 92, !.processes = 550] }

VARIABLES
  now,                \* time.time()
  alert_start_times,  \* AlertManager.alert_start_times (0 = None)
  last_alert_sent,    \* AlertManager.last_alert_sent   (0 = None)
  baseline_network,   \* AlertManager.baseline_network
  alerts_sent,        \* calls of AlertManager._send_alert, in order
  post_results,       \* how the _send_alert calls of the latest sample ended
  samples,            \* history: number of snapshots taken
  last_snapshot,      \* history: the snapshot of the last sample
  breach_gap,         \* history: a sample failed the rule's condition since
                      \* alert_start_times[rule] was set
  dirty_emits,        \* history: rules that emitted with breach_gap set
  first_sample,       \* history: instant of the first snapshot
  all_cpu_critical,   \* history: every snapshot so far met cpu_critical
  cpu_due             \* history: instant of the first snapshot taken at or
                      \* after first_sample + cpu_critical.duration

alertOnly == <<alert_start_times, last_alert_sent, baseline_network,
               alerts_sent, post_results,
               samples, last_snapshot, breach_gap, dirty_emits,
               first_sample, all_cpu_critical, cpu_due>>

VARIABLES
  suppression_rules,  \* the table: rule id -> row, or NoRow
  rules_cache,        \* SuppressionRuleChecker._rules_cache (NoCache = None)
  cache_timestamp,    \* SuppressionRuleChecker._cache_timestamp (0 = None)
  total_checks,       \* SuppressionRuleChecker.total_checks
  total_suppressed,   \* SuppressionRuleChecker.total_suppressed
  files,              \* source -> the lines of the file
  tail_pc,            \* source -> position of its _monitor_loop thread
  tail_pos,           \* source -> number of lines the open file has read
  open_pos,           \* history: source -> file length when it was opened
  fate,               \* history: source -> what happened to each line read
  bus,                \* messages accepted by the RabbitMQ queue
  bus_up,             \* the broker accepts connections
  last_call,          \* history: the last should_suppress call
  appended, store_ops, tail_ticks, calls   \* history: counters for the bounds

VARIABLES
  tq,                 \* rows of table telemetry_queue, in rowid order
  tq_next_id,         \* the next AUTOINCREMENT id
  enq_pc,             \* the sampler process inside enqueue: "idle", "counted"
  enq_count,          \* enqueue: the COUNT(*) it has read
  enq_timestamp,      \* enqueue: payload['timestamp']
  batch,              \* _telemetry_post_loop: snapshots still to process
  post_depth,         \* post_with_retry: recursive calls made for Head(batch)
  last_post,          \* history: the last POST and what followed it
  enqueues            \* history: number of enqueue calls

queueVars == <<tq, tq_next_id, enq_pc, enq_count, enq_timestamp, batch,
               post_depth, last_post, enqueues>>

VARIABLES
  ctl_pc,             \* the daemon: "new" before __init__, then "running"
  configs,            \* the log-file config dicts ever created, by object
  log_files,          \* LogCollectorDaemon.log_files: objects, in list order
  worker_pc,          \* object -> its _monitor_loop thread
  last_api,           \* history: the last control API request and its answer
  last_emit,          \* history: the last line a tailer thread handled
  api_calls           \* history: number of control API requests

controlVars == <<ctl_pc, configs, log_files, worker_pc, last_api, last_emit,
                 api_calls>>

\* The rate fields of the telemetry collector (telemetry_ws.py)
VARIABLES
  disk_io,            \* psutil.disk_io_counters(), in bytes
  net_io,             \* psutil.net_io_counters(), in bytes
  collector_time,     \* time.time() in the collector
  _last_disk,         \* TelemetryCollector._last_disk
  _last_net,          \* TelemetryCollector._last_net
  _last_time,         \* TelemetryCollector._last_time (0 = None)
  rates,              \* the rate fields of the latest snapshot
  reading,            \* history: counters and instants read by the latest snapshot
  prev_reading,       \* history: the same of the snapshot before it
  snapshots           \* history: number of snapshots collected

ratesVars == <<disk_io, net_io, collector_time, _last_disk, _last_net,
               _last_time, rates, reading, prev_reading, snapshots>>

\* The configuration store (config_store.py) and its control API routes
VARIABLES
  config,             \* ConfigStore.config
  config_file,        \* /etc/resolvix/config.json
  cache_file,         \* /etc/resolvix/config_cache.json, its 'config' entry
  remote_config,      \* the node's settings held by the backend
  remote_status,      \* how the backend answers GET /api/settings/daemon/<id>
  reload_pc,          \* position of the thread running reload()
  old_config,         \* reload(): old_config
  log_level,          \* level of the 'resolvix' logger
  last_changes,       \* the change set returned by the latest reload()
  quiet,              \* history: nothing but reloads ran since the latest reload
  last_reload,        \* history: the latest finished reload
  gets,               \* history: get() calls made during the running reload
  config_ops          \* history: number of operations on the store

configVars == <<config, config_file, cache_file, remote_config, remote_status,
                reload_pc, old_config, log_level, last_changes, quiet,
                last_reload, gets, config_ops>>

\* Calls of AlertManager.check_cpu_alert under a changing configuration
VARIABLES
  cpu_checks,         \* history: number of check_cpu_alert calls
  last_check          \* history: the latest check_cpu_alert call

thresholdVars == <<cpu_checks, last_check>>

\* The daemon's worker threads and its shutdown flag
VARIABLES
  _stop_flag,         \* LogCollectorDaemon._stop_flag is set
  path_exists,        \* per tailer: os.path.exists(log_file_path)
  file_enabled,       \* per tailer: log_file_config.get('enabled', True)
  monitor_pc,         \* per tailer: position of its _monitor_loop thread
  heartbeat_pc,       \* position of the _heartbeat_loop thread
  poster_pc,          \* position of the _telemetry_post_loop thread
  snapshots_left,     \* snapshots of the dequeued batch still to process
  stopped_from        \* history: the sleeps tailers were in when stop() ran

shutdownVars == <<_stop_flag, path_exists, file_enabled, monitor_pc,
                  heartbeat_pc, poster_pc, snapshots_left, stopped_from>>

\* A live-stream server (livelogs.py or telemetry_ws.py) and its peers
VARIABLES
  server,             \* which server the process runs ("none": not started)
  clients,            \* CLIENTS / TelemetryWebSocketServer.clients
  link,               \* per peer: state of its websocket
  bc_pc,              \* position of the broadcasting task
  message,            \* number of the message being, or last, broadcast
  pending,            \* peers of the running broadcast not yet sent to
  to_remove,          \* tail_and_broadcast: to_remove
  attempts,           \* history: per peer, the broadcasts sent to it
  failed_at,          \* history: per peer, the broadcast whose send failed
  targets             \* history: per broadcast, the peers registered at its start

peerVars == <<server, clients, link, bc_pc, message, pending, to_remove,
              attempts, failed_at, targets>>

\* One SuppressionRuleChecker shared by the monitor threads, a statement at
\* a time
VARIABLES
  _rules_cache,       \* the list object the attribute refers to (0 = None)
  _cache_timestamp,   \* instant of the last completed load (0 = None)
  lists,              \* the list objects created by _load_rules, by number
  selected,           \* what the SELECT of _load_rules returns at present
  wall,               \* datetime.now()
  thread,             \* per monitor thread: position and locals of its call
  checks_made,        \* SuppressionRuleChecker.total_checks
  suppressed_made,    \* SuppressionRuleChecker.total_suppressed
  matched,            \* match_count column, per rule id
  wall_ticks,         \* number of clock advances so far
  complete            \* history: the rule sets a load was to install

threadVars == <<_rules_cache, _cache_timestamp, lists, selected, wall, thread,
                checks_made, suppressed_made, matched, wall_ticks, complete>>

\* The daemon's own log, written by its logger and read by its own tailer
VARIABLES
  own_log,            \* lines of LOG_FILE written while lines were handled
  own_fate,           \* per line of own_log read so far: what the tailer did
  rabbit_up,          \* whether RabbitMQ accepts connections
  foreign_read,       \* error lines of other monitored files handled so far
  last_handling       \* history: what handling the latest line caused

feedbackVars == <<own_log, own_fate, rabbit_up, foreign_read, last_handling>>

\* An AlertManager fed with network traffic
VARIABLES
  manager,            \* its alert_start_times, last_alert_sent, baseline_network
  manager_time,       \* time.time() at the latest sample
  net_samples,        \* samples taken after the baseline was built
  last_traffic        \* history: the latest sample and whether it was a spike

spikeVars == <<manager, manager_time, net_samples, last_traffic>>

\* The poster working through a queue that nobody else writes to
VARIABLES
  rq,                 \* rows of telemetry_queue
  rq_next_id,         \* AUTOINCREMENT: the id of the next row
  rq_batch,           \* the snapshots of the running cycle not yet processed
  rq_depth,           \* nesting of post_with_retry for the head of rq_batch
  posts,              \* history: per id, the POSTs made of it, while all
                      \* of them failed transiently (0 afterwards)
  cycles,             \* history: per id, the cycles that processed it, alike
  answered,           \* history: ids with a POST that did not fail transiently
  uncommitted         \* history: ids with a mark_failed that did not commit

retryVars == <<rq, rq_next_id, rq_batch, rq_depth, posts, cycles, answered,
               uncommitted>>

\* stop() closing the rule-store connection while the tailers run
VARIABLES
  stop_set,           \* LogCollectorDaemon._stop_flag is set
  loop_pc,            \* per tailer: position of its _monitor_loop thread
  stop_pc,            \* position of the thread that runs stop()
  join_index,         \* index in _monitor_threads of the thread being joined
  db_open,            \* db_connection has not been closed
  late                \* history: the calls tailers began after stop() returned

closingVars == <<stop_set, loop_pc, stop_pc, join_index, db_open, late>>

\* The live-stream child processes and the control commands
VARIABLES
  procs,              \* kind -> _live_proc / _telemetry_proc: a pid, 0 if None
  alive,              \* the child processes that have not exited
  next_pid,           \* the pid the next spawned child gets
  last_control        \* history: the latest start or stop command

processVars == <<procs, alive, next_pid, last_control>>

\* The variables of the subsystems declared after the control API
extVars == <<ratesVars, configVars, thresholdVars, shutdownVars, peerVars, threadVars, feedbackVars, spikeVars, retryVars, closingVars, processVars>>

storeVars == <<suppression_rules, store_ops>>
checkerVars == <<rules_cache, cache_timestamp, total_checks, total_suppressed>>
callVars == <<last_call, calls>>
tailerVars == <<files, tail_pc, tail_pos, open_pos, fate, bus, bus_up, appended>>

\* The variables of the alert engine, the tailers, the matcher, the queue and
\* the control API
baseVars == <<now, tail_ticks, alertOnly, storeVars, checkerVars, callVars,
              tailerVars, queueVars, controlVars>>



\* ------------------------------------------------------------------------
\* AlertManager.  The alert state is passed through the checks as a record
\* st = [start, last, baseline, sent], with the backend's answer to a ticket
\* POST of this sample (post), whether a backend URL is set (backend), how
\* the _send_alert calls of this sample ended (results) and whether a check
\* has raised (raised).
\* ------------------------------------------------------------------------

\* _handle_threshold_alert: "if self.last_alert_sent[alert_type]: ...
\* if time_since_last < config['cooldown']: return"
InCooldownNever(st, alert_type, current_time) == FALSE

InCooldown(st, alert_type, current_time) ==
  /\ st.last[alert_type] # 0
  /\ current_time - st.last[alert_type] < ALERT_THRESHOLDS[alert_type].cooldown

\* _handle_threshold_alert: "if breach_duration >= config['duration']"
DurationMetStrict(st, alert_type, current_time) ==
  current_time - st.start[alert_type] > ALERT_THRESHOLDS[alert_type].duration

DurationMet(st, alert_type, current_time) ==
  current_time - st.start[alert_type] >= ALERT_THRESHOLDS[alert_type].duration

\* AlertManager.backend_url is set: collect_all_metrics runs the checks only
\* with an AlertManager, which TelemetryCollector builds only from a
\* non-empty api_url.
backend_url == TRUE

\* What the ticket endpoint can answer to the POST of _send_alert
PostOutcomes == {"created", "status_500", "timeout", "connection_error"}

\* _send_alert: "skipped" without a backend URL, "created" on 200/201,
\* "failed" when the POST fails (every exception is caught and logged);
\* "raise" would be an exception reaching the caller.
SendAlertRaisesOnTimeout(st, alert_type) ==
  IF ~st.backend THEN "skipped"
  ELSE IF st.post = "created" THEN "created"
  ELSE IF st.post = "timeout" THEN "raise"
  ELSE "failed"

_send_alert(st, alert_type) ==
  IF ~st.backend THEN "skipped"
  ELSE IF st.post = "created" THEN "created"
  ELSE "failed"

_handle_threshold_alert(st, alert_type, value, current_time) ==
  IF InCooldown(st, alert_type, current_time) THEN st
  ELSE IF st.start[alert_type] = 0
    THEN [st EXCEPT !.start[alert_type] = current_time]
  ELSE IF DurationMet(st, alert_type, current_time)
    THEN LET result == _send_alert(st, alert_type)
         IN IF result = "raise" THEN [st EXCEPT !.raised = TRUE]
            ELSE [st EXCEPT
                    !.sent = Append(@,
                       [alert_type |-> alert_type, value |-> value,
                        time |-> current_time,
                        duration |-> current_time - st.start[alert_type]]),
                    !.results = Append(@, result),
                    !.last[alert_type] = current_time,
                    !.start[alert_type] = 0]
  ELSE st

_reset_alert(st, alert_type) ==
  IF st.start[alert_type] # 0
    THEN [st EXCEPT !.start[alert_type] = 0]
    ELSE st

check_cpu_alert(st, cpu_percent, current_time) ==
  IF cpu_percent >= ALERT_THRESHOLDS.cpu_critical.threshold
    THEN _handle_threshold_alert(st, "cpu_critical", cpu_percent, current_time)
  ELSE IF cpu_percent >= ALERT_THRESHOLDS.cpu_high.threshold
    THEN _handle_threshold_alert(st, "cpu_high", cpu_percent, current_time)
  ELSE _reset_alert(_reset_alert(st, "cpu_critical"), "cpu_high")

check_memory_alert(st, memory_percent, current_time) ==
  IF memory_percent >= ALERT_THRESHOLDS.memory_critical.threshold
    THEN _handle_threshold_alert(st, "memory_critical", memory_percent, current_time)
  ELSE IF memory_percent >= ALERT_THRESHOLDS.memory_high.threshold
    THEN _handle_threshold_alert(st, "memory_high", memory_percent, current_time)
  ELSE _reset_alert(_reset_alert(st, "memory_critical"), "memory_high")

check_disk_alert(st, disk_percent, current_time) ==
  IF disk_percent >= ALERT_THRESHOLDS.disk_critical.threshold
    THEN _handle_threshold_alert(st, "disk_critical", disk_percent, current_time)
  ELSE IF disk_percent >= ALERT_THRESHOLDS.disk_high.threshold
    THEN _handle_threshold_alert(st, "disk_high", disk_percent, current_time)
  ELSE _reset_alert(_reset_alert(st, "disk_critical"), "disk_high")

check_process_count(st, process_count, current_time) ==
  IF process_count >= ALERT_THRESHOLDS.high_process_count.threshold
    THEN _handle_threshold_alert(st, "high_process_count", process_count, current_time)
    ELSE _reset_alert(st, "high_process_count")

\* bytes_sent > avg_sent * multiplier, with avg = sum / samples, is compared
\* without the division: bytes_sent * samples > sum * multiplier.
\* spike_value, max of the two ratios, is kept as the integer quotient.
check_network_spike(st, bytes_sent, bytes_recv, current_time) ==
  LET b == [sent |-> st.baseline.sent + bytes_sent,
            recv |-> st.baseline.recv + bytes_recv,
            samples |-> st.baseline.samples + 1]
      st1 == [st EXCEPT !.baseline = b]
      multiplier == ALERT_THRESHOLDS.network_spike.threshold_multiplier
      ratio(x, sum) == IF sum > 0 THEN (x * b.samples) \div sum ELSE 0
      rs == ratio(bytes_sent, b.sent)
      rr == ratio(bytes_recv, b.recv)
  IN IF b.samples < MinBaselineSamples THEN st1
     ELSE IF \/ bytes_sent * b.samples > b.sent * multiplier
             \/ bytes_recv * b.samples > b.recv * multiplier
       THEN _handle_threshold_alert(st1, "network_spike",
                                    IF rs > rr THEN rs ELSE rr, current_time)
     ELSE st1

\* TelemetryCollector.collect_all_metrics: the five checks, in order, on one
\* snapshot; the disk check only when the snapshot has the root mount.
\* collect_all_metrics: the checks run in one try block, so a check that
\* raises ends the checks of the sample.
AlertChecks(st, snap, current_time) ==
  LET s1 == check_cpu_alert(st, snap.cpu, current_time)
      s2 == IF s1.raised THEN s1
            ELSE check_memory_alert(s1, snap.memory, current_time)
      s3 == IF s2.raised \/ snap.disk = -1 THEN s2
            ELSE check_disk_alert(s2, snap.disk, current_time)
      s4 == IF s3.raised THEN s3
            ELSE check_process_count(s3, snap.processes, current_time)
  IN IF s4.raised THEN s4
     ELSE check_network_spike(s4, snap.sent, snap.recv, current_time)

\* Does the snapshot carry a sample that fails the rule's own condition?
\* (network_spike is left to the baseline and is not tracked here.)
FailsRule(alert_type, snap) ==
  CASE alert_type \in {"cpu_critical", "cpu_high"} ->
         snap.cpu < ALERT_THRESHOLDS[alert_type].threshold
    [] alert_type \in {"memory_critical", "memory_high"} ->
         snap.memory < ALERT_THRESHOLDS[alert_type].threshold
    [] alert_type \in {"disk_critical", "disk_high"} ->
         snap.disk # -1 /\ snap.disk < ALERT_THRESHOLDS[alert_type].threshold
    [] alert_type = "high_process_count" ->
         snap.processes < ALERT_THRESHOLDS[alert_type].threshold
    [] OTHER -> FALSE

\* One sampler cycle: d seconds after the previous one a snapshot is taken
\* and collect_all_metrics runs the alert checks on it.
Sample ==
  /\ samples < MaxSamples
  /\ \E d \in Deltas, snap \in Snapshots :
    LET t == now + d
        st == [start |-> alert_start_times, last |-> last_alert_sent,
               baseline |-> baseline_network, sent |-> alerts_sent,
               post |-> "created", backend |-> backend_url,
               results |-> <<>>,
               raised |-> FALSE]
        T == IF samples = 0 THEN t ELSE first_sample
    IN \E created \in {AlertChecks(st, snap, t)} :
       \* the endpoint answers only when a POST is made
       \E post \in IF Len(created.sent) > Len(alerts_sent)
                    THEN PostOutcomes ELSE {"created"} :
       \E st2 \in {IF post = "created" THEN created
                    ELSE AlertChecks([st EXCEPT !.post = post], snap, t)} :
       LET emitted == {a \in AlertTypes : st2.last[a] # st.last[a]} IN
       /\ samples' = samples + 1
       /\ now' = t
       /\ alert_start_times' = st2.start
       /\ last_alert_sent' = st2.last
       /\ baseline_network' = st2.baseline
       /\ alerts_sent' = st2.sent
       /\ post_results' = st2.results
       /\ last_snapshot' = snap
       /\ breach_gap' = [a \in AlertTypes |->
            IF st2.start[a] = 0 \/ st.start[a] = 0 THEN FALSE
            ELSE breach_gap[a] \/ FailsRule(a, snap)]
       /\ dirty_emits' = dirty_emits \cup {a \in emitted : breach_gap[a]}
       /\ first_sample' = T
       /\ all_cpu_critical' =
            (all_cpu_critical /\ ~FailsRule("cpu_critical", snap))
       /\ cpu_due' = IF cpu_due = 0
                        /\ t >= T + ALERT_THRESHOLDS.cpu_critical.duration
                       THEN t ELSE cpu_due
  /\ UNCHANGED <<extVars, storeVars, checkerVars, callVars, tailerVars, tail_ticks,
                 queueVars, controlVars>>

InitAlert ==
  /\ now = 1
  /\ alert_start_times = [a \in AlertTypes |-> 0]
  /\ last_alert_sent = [a \in AlertTypes |-> 0]
  /\ baseline_network = [sent |-> 0, recv |-> 0, samples |-> 0]
  /\ alerts_sent = <<>>
  /\ post_results = <<>>
  /\ samples = 0
  /\ last_snapshot = Normal
  /\ breach_gap = [a \in AlertTypes |-> FALSE]
  /\ dirty_emits = {}
  /\ first_sample = 0
  /\ all_cpu_critical = TRUE
  /\ cpu_due = 0

\* ------------------------------------------------------------------------
\* Text.  A line is a sequence of words; str.lower() maps every word to its
\* lower-case form and `x in y` is the contiguous-subsequence test.
\* ------------------------------------------------------------------------
Lower(w) ==
  CASE w = "ERROR"  -> "error"
    [] w = "Error"  -> "error"
    [] w = "Failed" -> "failed"
    [] w = "DISK"   -> "disk"
    [] w = "Disk"   -> "disk"
    [] OTHER -> w

LowerSeq(text) == [i \in DOMAIN text |-> Lower(text[i])]

IsSubstring(a, b) ==
  \E i \in 0..(Len(b) - Len(a)) : SubSeq(b, i + 1, i + Len(a)) = a

\* A NULL match_text column, read by psycopg2 as None
NullText == <<"<NULL>">>

\* The node id of this agent and of another node
NodeId == "10.0.0.1"
OtherNode == "10.0.0.9"

\* ERROR_KEYWORDS, matched as whole words whatever the case
ERROR_KEYWORDS ==
  {"emerg", "emergency", "alert", "crit", "critical", "err", "error",
   "fail", "failed", "failure", "panic", "fatal"}

err_re_search(line) ==
  \E i \in DOMAIN line : Lower(line[i]) \in ERROR_KEYWORDS

\* The markers of the agent's own messages, matched case-sensitively
\* anywhere in the line: the one-word markers of the list
SelfMarkers ==
  {"[SUPPRESSED]", "Component", "log_collector_daemon.py", "[AlertManager]",
   "[ProcessMonitor]", "[TelemetryQueue]", "[TelemetryPoster]", "[Config]",
   "[MachineUUID]", "[Self-Monitoring]", "Heartbeat", "Livelogs", "Telemetry"}

\* The markers of the list that are phrases
PhraseMarkers ==
  { <<"Issue", "detected">>, <<"Error", "checking", "suppression">>,
    <<"Backend", "error", "reporting">>, <<"Daemon", "initialization">>,
    <<"Configuration", "store">>, <<"Health", "check">>,
    <<"Resolvix", "Daemon", "Starting">>,
    <<"Log", "entry", "sent", "to", "RabbitMQ">>, <<"sent", "to", "RabbitMQ">>,
    <<"Control", "command", "received">> }

HasSelfMarker(line) ==
  \/ \E i \in DOMAIN line : line[i] \in SelfMarkers
  \/ \E m \in PhraseMarkers : IsSubstring(m, line)

\* ------------------------------------------------------------------------
\* Bounds and inputs of the tailer / suppression model
\* ------------------------------------------------------------------------
MaxLines == 2        \* lines appended to the log files, in total
MaxStoreOps == 2     \* changes made to the rule store from outside
MaxTailTicks == 1    \* clock advances
MaxCalls == 2        \* direct calls of should_suppress

Sources == {"file_001", "file_002"}

Lines ==
  { <<"ERROR", "Disk">>,        \* an error line
    <<"ERROR", "Component">>,   \* an error line holding a marker word
    <<"ok", "disk">> }          \* not an error line

TailDeltas == {30, 60}

\* Rows that can be inserted into suppression_rules (expires_at 0 = NULL)
RuleTemplates ==
  { [match_text |-> <<"DISK">>,  node_ip |-> "NULL",    expires_at |-> 0],
    [match_text |-> <<"error">>, node_ip |-> NodeId,    expires_at |-> 20],
    [match_text |-> <<"error">>, node_ip |-> OtherNode, expires_at |-> 0],
    [match_text |-> NullText,    node_ip |-> "NULL",    expires_at |-> 0] }

RuleIds == 1..2

\* SuppressionRuleChecker(db_connection, cache_ttl=60)
cache_ttl == 60

NoRow == [present |-> FALSE]
\* The cache slot: None, or the list of cached rules
NoCache == [none |-> TRUE, rules |-> <<>>]
CacheOf(rules) == [none |-> FALSE, rules |-> rules]

\* ------------------------------------------------------------------------
\* SuppressionRuleChecker
\* ------------------------------------------------------------------------

\* The SELECT of _load_rules: enabled rows that have not expired, by id
RECURSIVE ActiveRows(_, _, _)
ActiveRows(db, t, id) ==
  IF id > Cardinality(RuleIds) THEN <<>>
  ELSE LET row == db[id]
           rest == ActiveRows(db, t, id + 1)
       IN IF /\ row.present
             /\ row.enabled
             /\ (row.expires_at = 0 \/ row.expires_at > t)
            THEN <<[id |-> id, match_text |-> row.match_text,
                    node_ip |-> row.node_ip, expires_at |-> row.expires_at]>>
                 \o rest
            ELSE rest

\* _should_refresh_cache
_should_refresh_cache(cache, ts, t) ==
  \/ cache.none
  \/ ts = 0
  \/ t - ts >= cache_ttl

\* The ways a reload can end, when the call makes one
LoadOutcomes(cache, ts, t) ==
  IF _should_refresh_cache(cache, ts, t)
    THEN {"ok", "fail_execute", "fail_fetch"}
    ELSE {"ok"}

\* _load_rules.  outcome: "ok", "fail_execute" (cursor() or execute()
\* raises) or "fail_fetch" (fetchall() raises, after the cache was cleared).
_load_rules(cache, ts, db, t, outcome) ==
  CASE outcome = "ok" ->
         [cache |-> CacheOf(ActiveRows(db, t, 1)), ts |-> t]
    [] outcome = "fail_execute" ->
         [cache |-> IF cache.none THEN CacheOf(<<>>) ELSE cache, ts |-> ts]
    [] outcome = "fail_fetch" ->
         [cache |-> CacheOf(<<>>), ts |-> ts]

\* _matches_rule: "match", "nomatch" or "raise" (None has no lower())
MatchesRuleCaseSensitive(error_message, node_id, rule) ==
  IF rule.node_ip # "NULL" /\ rule.node_ip # node_id THEN "nomatch"
  ELSE IF rule.match_text = NullText THEN "raise"
  ELSE IF ~IsSubstring(rule.match_text, error_message) THEN "nomatch"
  ELSE "match"

_matches_rule(error_message, node_id, rule) ==
  IF rule.node_ip # "NULL" /\ rule.node_ip # node_id THEN "nomatch"
  ELSE IF rule.match_text = NullText THEN "raise"
  ELSE IF ~IsSubstring(LowerSeq(rule.match_text), LowerSeq(error_message))
    THEN "nomatch"
  ELSE "match"

\* _increment_match_count.  outcome "ok": the UPDATE commits (it changes the
\* row if it still exists); "fail": it raises and is rolled back.
IncrementMatchCountAlways(db, rule_id, outcome) ==
  IF db[rule_id].present
    THEN [db EXCEPT ![rule_id].match_count = @ + 1]
    ELSE db

_increment_match_count(db, rule_id, outcome) ==
  IF outcome = "ok" /\ db[rule_id].present
    THEN [db EXCEPT ![rule_id].match_count = @ + 1]
    ELSE db

\* The loop of should_suppress over the cache from index i on
RECURSIVE FirstMatch(_, _, _, _)
FirstMatch(cache, i, error_message, node_id) ==
  IF i > Len(cache) THEN [result |-> "false", rule |-> 0]
  ELSE LET m == _matches_rule(error_message, node_id, cache[i])
       IN CASE m = "match" -> [result |-> "true", rule |-> cache[i].id]
            [] m = "raise" -> [result |-> "raise", rule |-> cache[i].id]
            [] OTHER -> FirstMatch(cache, i + 1, error_message, node_id)

\* should_suppress(error_message, node_id) on checker state ck =
\* [cache, ts, checks, suppressed] and table db at instant t.
should_suppress(ck, db, t, error_message, node_id, load_outcome, incr_outcome) ==
  LET loaded == IF _should_refresh_cache(ck.cache, ck.ts, t)
                  THEN _load_rules(ck.cache, ck.ts, db, t, load_outcome)
                  ELSE [cache |-> ck.cache, ts |-> ck.ts]
      ck1 == [cache |-> loaded.cache, ts |-> loaded.ts,
              checks |-> ck.checks + 1, suppressed |-> ck.suppressed]
      m == IF ck1.cache.none \/ ck1.cache.rules = <<>>
             THEN [result |-> "false", rule |-> 0]
             ELSE FirstMatch(ck1.cache.rules, 1, error_message, node_id)
  IN IF m.result = "true"
       THEN [result |-> "true", rule |-> m.rule,
             ck |-> [ck1 EXCEPT !.suppressed = @ + 1],
             db |-> _increment_match_count(db, m.rule, incr_outcome),
             updated |-> (incr_outcome = "ok")]
       ELSE [result |-> m.result, rule |-> m.rule, ck |-> ck1, db |-> db,
             updated |-> FALSE]

\* ------------------------------------------------------------------------
\* The contract of should_suppress, stated on a rule and on a table row
\* ------------------------------------------------------------------------
RuleApplies(rule, line, node_id) ==
  /\ rule.node_ip = "NULL" \/ rule.node_ip = node_id
  /\ IsSubstring(LowerSeq(rule.match_text), LowerSeq(line))

StoreRuleApplies(row, line, node_id, t) ==
  /\ row.present
  /\ row.enabled
  /\ row.expires_at = 0 \/ row.expires_at > t
  /\ RuleApplies(row, line, node_id)

\* History record of a call: its arguments, its answer r, and what the
\* table (at the call) and the cache (as used by the call) hold for them.
CallRecord(line, node_id, r, db, cache, ts, t) ==
  [line |-> line, node_id |-> node_id, result |-> r.result, rule |-> r.rule,
   updated |-> r.updated,
   store_match |-> \E id \in RuleIds :
                      StoreRuleApplies(db[id], line, node_id, t),
   cache_match |-> \E i \in DOMAIN r.ck.cache.rules :
                      RuleApplies(r.ck.cache.rules[i], line, node_id),
   reloaded |-> _should_refresh_cache(cache, ts, t) /\ r.ck.ts = t]

NoCall ==
  [line |-> <<>>, node_id |-> NodeId, result |-> "none", rule |-> 0,
   updated |-> FALSE, store_match |-> FALSE, cache_match |-> FALSE,
   reloaded |-> FALSE]

\* ------------------------------------------------------------------------
\* send_to_rabbitmq: connect, declare, publish, close; False on any error.
\* attempts: the publish attempts the call makes; opened: the connections
\* it opens (pika.BlockingConnection is constructed in every call).
\* ------------------------------------------------------------------------
send_to_rabbitmq(queue, up, payload) ==
  IF up THEN [success |-> TRUE, queue |-> Append(queue, payload),
              attempts |-> 1, opened |-> 1]
        ELSE [success |-> FALSE, queue |-> queue,
              attempts |-> 1, opened |-> 1]

\* ------------------------------------------------------------------------
\* LogCollectorDaemon._monitor_loop
\* ------------------------------------------------------------------------

\* What the loop body does with a line, given the answer of the suppression
\* check ("true", "false", "raise"; "none" when it is not called).
LineDecisionDropOnError(line, sup) ==
  IF HasSelfMarker(line) THEN "skip_marker"
  ELSE IF ~err_re_search(line) THEN "skip_no_error"
  ELSE IF sup = "true" THEN "suppressed"
  ELSE IF sup = "raise" THEN "skip_error"
  ELSE "publish"

LineDecision(line, sup) ==
  IF HasSelfMarker(line) THEN "skip_marker"
  ELSE IF ~err_re_search(line) THEN "skip_no_error"
  ELSE IF sup = "true" THEN "suppressed"
  ELSE "publish"

\* The file exists: open it and seek to its end.
OpenFile(s) ==
  /\ tail_pc[s] = "waiting"
  /\ tail_pc' = [tail_pc EXCEPT ![s] = "tailing"]
  /\ tail_pos' = [tail_pos EXCEPT ![s] = Len(files[s])]
  /\ open_pos' = [open_pos EXCEPT ![s] = Len(files[s])]
  /\ UNCHANGED <<files, fate, bus, bus_up, appended>>
  /\ UNCHANGED <<extVars, now, tail_ticks, alertOnly, storeVars, checkerVars, callVars,
                 queueVars, controlVars>>

\* One iteration of the loop that reads a line.
ReadLine(s) ==
  /\ tail_pc[s] = "tailing"
  /\ tail_pos[s] < Len(files[s])
  /\ LET line == files[s][tail_pos[s] + 1]
         called == ~HasSelfMarker(line) /\ err_re_search(line)
         ck == [cache |-> rules_cache, ts |-> cache_timestamp,
                checks |-> total_checks, suppressed |-> total_suppressed]
     IN \E load_outcome \in LoadOutcomes(rules_cache, cache_timestamp, now),
           incr_outcome \in {"ok", "fail"} :
        \E r \in {IF called
                    THEN should_suppress(ck, suppression_rules, now, line,
                                         NodeId, load_outcome, incr_outcome)
                    ELSE [result |-> "none", rule |-> 0, ck |-> ck,
                          db |-> suppression_rules, updated |-> FALSE]} :
        \E decision \in {LineDecision(line, r.result)} :
        \E sent \in {IF decision = "publish"
                       THEN send_to_rabbitmq(bus, bus_up,
                              [log_path |-> s, log_line |-> line,
                               line_no |-> tail_pos[s] + 1])
                       ELSE [success |-> FALSE, queue |-> bus,
                             attempts |-> 0, opened |-> 0]} :
          /\ tail_pos' = [tail_pos EXCEPT ![s] = @ + 1]
          /\ rules_cache' = r.ck.cache
          /\ cache_timestamp' = r.ck.ts
          /\ total_checks' = r.ck.checks
          /\ total_suppressed' = r.ck.suppressed
          /\ suppression_rules' = r.db
          /\ bus' = sent.queue
          /\ fate' = [fate EXCEPT ![s] = Append(@,
                        [line_no |-> tail_pos[s] + 1,
                         decision |-> decision,
                         check |-> r.result,
                         rule |-> IF r.result = "true" THEN r.rule ELSE 0,
                         bus_up |-> bus_up,
                         sent |-> sent.success,
                         attempts |-> sent.attempts,
                         opened |-> sent.opened])]
          /\ last_call' =
               IF called
                 THEN CallRecord(line, NodeId, r, suppression_rules,
                                 rules_cache, cache_timestamp, now)
                 ELSE last_call
  /\ UNCHANGED <<files, tail_pc, open_pos, bus_up, appended>>
  /\ UNCHANGED <<extVars, now, alertOnly, store_ops, tail_ticks, calls, queueVars, controlVars>>

\* ------------------------------------------------------------------------
\* Environment of the tailer
\* ------------------------------------------------------------------------
AppendLine(s) ==
  /\ appended < MaxLines
  /\ \E line \in Lines :
       /\ files' = [files EXCEPT ![s] = Append(@, line)]
       /\ appended' = appended + 1
  /\ UNCHANGED <<tail_pc, tail_pos, open_pos, fate, bus, bus_up>>
  /\ UNCHANGED <<extVars, now, tail_ticks, alertOnly, storeVars, checkerVars, callVars,
                 queueVars, controlVars>>

BusToggle ==
  /\ bus_up' = ~bus_up
  /\ UNCHANGED <<files, tail_pc, tail_pos, open_pos, fate, bus, appended>>
  /\ UNCHANGED <<extVars, now, tail_ticks, alertOnly, storeVars, checkerVars, callVars,
                 queueVars, controlVars>>

\* ------------------------------------------------------------------------
\* A direct call of should_suppress (as the tests of the checker make it)
\* ------------------------------------------------------------------------
CallShouldSuppress ==
  /\ calls < MaxCalls
  /\ \E line \in Lines, node_id \in {NodeId, OtherNode},
        load_outcome \in LoadOutcomes(rules_cache, cache_timestamp, now),
        incr_outcome \in {"ok", "fail"} :
     LET ck == [cache |-> rules_cache, ts |-> cache_timestamp,
                checks |-> total_checks, suppressed |-> total_suppressed]
     IN \E r \in {should_suppress(ck, suppression_rules, now, line, node_id,
                                  load_outcome, incr_outcome)} :
          /\ rules_cache' = r.ck.cache
          /\ cache_timestamp' = r.ck.ts
          /\ total_checks' = r.ck.checks
          /\ total_suppressed' = r.ck.suppressed
          /\ suppression_rules' = r.db
          /\ last_call' = CallRecord(line, node_id, r, suppression_rules,
                                     rules_cache, cache_timestamp, now)
  /\ calls' = calls + 1
  /\ UNCHANGED <<extVars, now, alertOnly, tailerVars, store_ops, tail_ticks, queueVars, controlVars>>

\* ------------------------------------------------------------------------
\* The rule store is changed from outside; the clock advances
\* ------------------------------------------------------------------------
InsertRule ==
  /\ store_ops < MaxStoreOps
  /\ \E id \in RuleIds, tpl \in RuleTemplates :
       /\ ~suppression_rules[id].present
       /\ \A j \in RuleIds : j < id => suppression_rules[j].present
       /\ suppression_rules' = [suppression_rules EXCEPT ![id] =
            [present |-> TRUE, enabled |-> TRUE, match_count |-> 0,
             match_text |-> tpl.match_text, node_ip |-> tpl.node_ip,
             expires_at |-> tpl.expires_at]]
  /\ store_ops' = store_ops + 1
  /\ UNCHANGED <<extVars, now, alertOnly, tailerVars, checkerVars, callVars, tail_ticks,
                 queueVars, controlVars>>

SetRuleEnabled ==
  /\ store_ops < MaxStoreOps
  /\ \E id \in RuleIds :
       /\ suppression_rules[id].present
       /\ suppression_rules' =
            [suppression_rules EXCEPT ![id].enabled = ~@]
  /\ store_ops' = store_ops + 1
  /\ UNCHANGED <<extVars, now, alertOnly, tailerVars, checkerVars, callVars, tail_ticks,
                 queueVars, controlVars>>

DeleteRule ==
  /\ store_ops < MaxStoreOps
  /\ \E id \in RuleIds :
       /\ suppression_rules[id].present
       /\ suppression_rules' = [suppression_rules EXCEPT ![id] = NoRow]
  /\ store_ops' = store_ops + 1
  /\ UNCHANGED <<extVars, now, alertOnly, tailerVars, checkerVars, callVars, tail_ticks,
                 queueVars, controlVars>>

TailTick ==
  /\ tail_ticks < MaxTailTicks
  /\ \E d \in TailDeltas : now' = now + d
  /\ tail_ticks' = tail_ticks + 1
  /\ UNCHANGED <<extVars, alertOnly, tailerVars, checkerVars, callVars,
                 suppression_rules, store_ops, queueVars, controlVars>>

InitTail ==
  /\ suppression_rules = [id \in RuleIds |-> NoRow]
  /\ rules_cache = NoCache
  /\ cache_timestamp = 0
  /\ total_checks = 0
  /\ total_suppressed = 0
  /\ files = [s \in Sources |-> <<>>]
  /\ tail_pc = [s \in Sources |-> "waiting"]
  /\ tail_pos = [s \in Sources |-> 0]
  /\ open_pos = [s \in Sources |-> 0]
  /\ fate = [s \in Sources |-> <<>>]
  /\ bus = <<>>
  /\ bus_up = TRUE
  /\ last_call = NoCall
  /\ appended = 0
  /\ store_ops = 0
  /\ tail_ticks = 0
  /\ calls = 0

\* ------------------------------------------------------------------------
\* TelemetryQueue (SQLite table telemetry_queue) and the poster loop
\* ------------------------------------------------------------------------
QueueMaxSize == 2     \* TelemetryQueue.max_size of the model
MaxEnqueues == 3      \* enqueue calls
PayloadTimestamps == 1..2

\* _telemetry_post_loop: dequeue(limit=10), mark_failed(max_retries=3)
DequeueLimit == 10
max_retries == 3

\* enqueue: "if count >= self.max_size"
QueueFullStrict(count) == count > QueueMaxSize

QueueFull(count) == count >= QueueMaxSize

\* Index in rows of the row that ORDER BY timestamp ASC LIMIT 1 selects:
\* the least timestamp, the lowest rowid among equal timestamps.
OldestIndex(rows) ==
  CHOOSE i \in DOMAIN rows :
    \A j \in DOMAIN rows :
      \/ rows[i].timestamp < rows[j].timestamp
      \/ rows[i].timestamp = rows[j].timestamp /\ i <= j

RemoveAt(rows, i) == SubSeq(rows, 1, i - 1) \o SubSeq(rows, i + 1, Len(rows))

DeleteLatestInserted(rows) ==
  IF rows = <<>> THEN rows ELSE RemoveAt(rows, Len(rows))

DeleteOldest(rows) ==
  IF rows = <<>> THEN rows ELSE RemoveAt(rows, OldestIndex(rows))

DeleteId(rows, id) == SelectSeq(rows, LAMBDA r : r.id # id)

\* ORDER BY timestamp ASC LIMIT n
RECURSIVE OldestFirst(_, _)
OldestFirst(rows, n) ==
  IF n = 0 \/ rows = <<>> THEN <<>>
  ELSE <<rows[OldestIndex(rows)]>>
         \o OldestFirst(RemoveAt(rows, OldestIndex(rows)), n - 1)

\* enqueue, first statement: SELECT COUNT(*), outside any transaction
EnqueueCount ==
  /\ enq_pc = "idle"
  /\ enqueues < MaxEnqueues
  /\ \E ts \in PayloadTimestamps : enq_timestamp' = ts
  /\ enq_count' = Len(tq)
  /\ enq_pc' = "counted"
  /\ enqueues' = enqueues + 1
  /\ UNCHANGED <<tq, tq_next_id, batch, post_depth, last_post>>
  /\ UNCHANGED <<extVars, now, tail_ticks, alertOnly, storeVars, checkerVars, callVars,
                 tailerVars, controlVars>>

\* enqueue, the write transaction: DELETE of the oldest row when the count
\* read says the queue is full, INSERT, commit; or an sqlite3 error, rollback.
EnqueueWrite ==
  /\ enq_pc = "counted"
  /\ \E outcome \in {"ok", "fail"} :
       IF outcome = "ok"
         THEN /\ tq' = Append(IF QueueFull(enq_count) THEN DeleteOldest(tq)
                              ELSE tq,
                              [id |-> tq_next_id, timestamp |-> enq_timestamp,
                               retry_count |-> 0])
              /\ tq_next_id' = tq_next_id + 1
         ELSE UNCHANGED <<tq, tq_next_id>>
  /\ enq_pc' = "idle"
  /\ UNCHANGED <<enq_count, enq_timestamp, batch, post_depth, last_post,
                 enqueues>>
  /\ UNCHANGED <<extVars, now, tail_ticks, alertOnly, storeVars, checkerVars, callVars,
                 tailerVars, controlVars>>

\* dequeue(limit): the rows read, as (id, retry_count), oldest first
dequeue(rows, limit) ==
  LET sel == OldestFirst(rows, limit)
  IN [i \in DOMAIN sel |-> [id |-> sel[i].id, retry_count |-> sel[i].retry_count]]

\* mark_sent(snapshot_id)
MarkSentOldest(rows, snapshot_id) == DeleteOldest(rows)

mark_sent(rows, snapshot_id) == DeleteId(rows, snapshot_id)

\* mark_failed(snapshot_id, max_retries): UPDATE retry_count + 1, then
\* DELETE when the row exists and its count has reached max_retries
MarkFailedBeyond(rows, snapshot_id, limit) ==
  LET bumped == [i \in DOMAIN rows |->
                   IF rows[i].id = snapshot_id
                     THEN [rows[i] EXCEPT !.retry_count = @ + 1]
                     ELSE rows[i]]
  IN SelectSeq(bumped,
       LAMBDA r : ~(r.id = snapshot_id /\ r.retry_count > limit))

mark_failed(rows, snapshot_id, limit) ==
  LET bumped == [i \in DOMAIN rows |->
                   IF rows[i].id = snapshot_id
                     THEN [rows[i] EXCEPT !.retry_count = @ + 1]
                     ELSE rows[i]]
  IN SelectSeq(bumped,
       LAMBDA r : ~(r.id = snapshot_id /\ r.retry_count >= limit))

\* What mark_failed returns: False when its statements raise or when it
\* deleted the row; True otherwise, a SELECT that finds no row included
mark_failed_returns(rows, snapshot_id, limit, outcome) ==
  IF outcome = "fail" THEN "False"
  ELSE IF \E i \in DOMAIN rows :
            rows[i].id = snapshot_id /\ rows[i].retry_count + 1 >= limit
    THEN "False"
  ELSE "True"

\* ------------------------------------------------------------------------
\* TelemetryPoster
\* ------------------------------------------------------------------------

\* What the snapshot endpoint can answer to one POST: an HTTP status, or
\* NoResponse (connection refused, timeout)
NoResponse == 0
Responses == {200, 201, 400, 500, NoResponse}

\* TelemetryPoster.__init__: retry_backoff=[5, 15, 60]
retry_backoff == <<5, 15, 60>>

\* post_snapshot: (success, error_type) for the answer to the POST
post_snapshot(response) ==
  IF response = NoResponse
    THEN [success |-> FALSE, error_type |-> "connection_error"]
  ELSE IF response = 200
    THEN [success |-> TRUE, error_type |-> "None"]
  ELSE IF 400 <= response /\ response < 500
    THEN [success |-> FALSE, error_type |-> "client_error"]
  ELSE [success |-> FALSE, error_type |-> "server_error"]

PostWithRetryForever(response, retry_count) ==
  LET r == post_snapshot(response)
  IN IF r.success THEN "True"
     ELSE IF r.error_type = "client_error" THEN "False"
     ELSE "retry"

\* post_with_retry(payload, retry_count) after one POST: "True", "False",
\* or "retry" (sleep retry_backoff[retry_count], then
\* post_with_retry(payload, retry_count + 1))
post_with_retry(response, retry_count) ==
  LET r == post_snapshot(response)
  IN IF r.success THEN "True"
     ELSE IF r.error_type = "client_error" THEN "False"
     ELSE IF retry_count < Len(retry_backoff) THEN "retry"
     ELSE "False"

NoPost ==
  [id |-> 0, status |-> NoResponse, depth |-> 0, op |-> "none",
   outcome |-> "ok", present |-> FALSE, retry_before |-> 0,
   returned |-> "none"]

RetryCountOf(rows, id) ==
  IF \E i \in DOMAIN rows : rows[i].id = id
    THEN rows[CHOOSE i \in DOMAIN rows : rows[i].id = id].retry_count
    ELSE 0

\* _telemetry_post_loop: a cycle starts with dequeue(limit=10)
PosterDequeue ==
  /\ batch = <<>>
  /\ tq # <<>>
  /\ batch' = dequeue(tq, DequeueLimit)
  /\ post_depth' = 0
  /\ UNCHANGED <<tq, tq_next_id, enq_pc, enq_count, enq_timestamp, last_post,
                 enqueues>>
  /\ UNCHANGED <<extVars, now, tail_ticks, alertOnly, storeVars, checkerVars, callVars,
                 tailerVars, controlVars>>

\* _telemetry_post_loop, one POST of the snapshot at the head of the batch
\* and what follows it up to the next POST: post_with_retry either sleeps
\* and calls itself again, or returns, and then mark_sent (True) or
\* mark_failed (False) runs (outcome "fail": its statement raises and
\* nothing is committed) and the loop moves to the next snapshot.
PosterProcess ==
  /\ batch # <<>>
  /\ \E response \in Responses, outcome \in {"ok", "fail"} :
       LET snapshot_id == Head(batch).id
           answer == post_with_retry(response,
                                     Head(batch).retry_count + post_depth)
           op == CASE answer = "True" -> "mark_sent"
                   [] answer = "False" -> "mark_failed"
                   [] OTHER -> "none"
       IN /\ outcome = "fail" => op # "none"
          /\ tq' = CASE op = "none" \/ outcome = "fail" -> tq
                     [] op = "mark_sent" -> mark_sent(tq, snapshot_id)
                     [] OTHER -> mark_failed(tq, snapshot_id, max_retries)
          /\ batch' = IF op = "none" THEN batch ELSE Tail(batch)
          /\ post_depth' = IF op = "none" THEN post_depth + 1 ELSE 0
          /\ last_post' =
               [id |-> snapshot_id, status |-> response, depth |-> post_depth,
                op |-> op, outcome |-> outcome,
                present |-> \E i \in DOMAIN tq : tq[i].id = snapshot_id,
                retry_before |-> RetryCountOf(tq, snapshot_id),
                returned |-> IF op = "mark_failed"
                               THEN mark_failed_returns(tq, snapshot_id,
                                                        max_retries, outcome)
                               ELSE "none"]
  /\ UNCHANGED <<tq_next_id, enq_pc, enq_count, enq_timestamp, enqueues>>
  /\ UNCHANGED <<extVars, now, tail_ticks, alertOnly, storeVars, checkerVars, callVars,
                 tailerVars, controlVars>>

InitQueue ==
  /\ tq = <<>>
  /\ tq_next_id = 1
  /\ enq_pc = "idle"
  /\ enq_count = 0
  /\ enq_timestamp = 1
  /\ batch = <<>>
  /\ post_depth = 0
  /\ last_post = NoPost
  /\ enqueues = 0

\* ------------------------------------------------------------------------
\* The list of monitored files and its control API
\* ------------------------------------------------------------------------
MaxApiCalls == 3      \* control API requests

\* LOG_FILE, the daemon's own log, and two other log files
DaemonLog == "/var/log/resolvix.log"
Paths == {DaemonLog, "/var/log/app.log", "/var/log/db.log"}

\* The --log-file arguments the daemon is started with
StartupLists ==
  { <<"/var/log/app.log">>,
    <<"/var/log/app.log", "/var/log/db.log">>,
    <<DaemonLog>>,
    <<"/var/log/app.log", DaemonLog>> }

\* The <file_id> of a request: n stands for f"file_{n:03d}"
FileIds == 1..4

\* The JSON body of a PUT: 'enabled' given as true or false, or a body that
\* only changes the label
UpdateData ==
  { [has_enabled |-> TRUE, enabled |-> TRUE],
    [has_enabled |-> TRUE, enabled |-> FALSE],
    [has_enabled |-> FALSE, enabled |-> FALSE] }

\* LogCollectorDaemon.__init__: the config dicts built from the arguments,
\* and the daemon's own log appended unless a given path equals it
InitLogFiles(startup) ==
  LET given == [i \in DOMAIN startup |->
                  [id |-> i, path |-> startup[i], enabled |-> TRUE,
                   auto_monitor |-> FALSE]]
  IN IF \E i \in DOMAIN given : given[i].path = DaemonLog
       THEN given
       ELSE Append(given, [id |-> Len(given) + 1, path |-> DaemonLog,
                           enabled |-> TRUE, auto_monitor |-> TRUE])

\* The loop that finds <file_id> in daemon.log_files: the index of the first
\* entry with that id, 0 when there is none
FindFile(list, heap, file_id) ==
  IF \E i \in DOMAIN list : heap[list[i]].id = file_id
    THEN CHOOSE i \in DOMAIN list :
           /\ heap[list[i]].id = file_id
           /\ \A j \in DOMAIN list : heap[list[j]].id = file_id => i <= j
    ELSE 0

\* update_monitored_file: "Cannot disable auto-monitored files"
UpdateRejected(file_config, data) ==
  file_config.auto_monitor /\ data.has_enabled /\ ~data.enabled

\* delete_monitored_file: "Cannot delete auto-monitored files"
DeleteRejectedNever(file_config) == FALSE

DeleteRejected(file_config) == file_config.auto_monitor

NoApi ==
  [op |-> "none", file_id |-> 0, disable |-> FALSE, status |-> 0, target |-> 0]
NoEmit == [object |-> 0, listed |-> FALSE]

Listed(list, object) == \E i \in DOMAIN list : list[i] = object

\* __init__ builds log_files; start() starts one _monitor_loop thread per
\* entry.
DaemonInit ==
  /\ ctl_pc = "new"
  /\ \E startup \in StartupLists :
       /\ configs' = InitLogFiles(startup)
       /\ log_files' = [i \in DOMAIN InitLogFiles(startup) |-> i]
       /\ worker_pc' = [i \in DOMAIN InitLogFiles(startup) |-> "waiting"]
  /\ ctl_pc' = "running"
  /\ UNCHANGED <<last_api, last_emit, api_calls>>
  /\ UNCHANGED <<extVars, now, tail_ticks, alertOnly, storeVars, checkerVars, callVars,
                 tailerVars, queueVars>>

\* POST /api/monitored-files with one existing file
add_monitored_files ==
  /\ ctl_pc = "running"
  /\ api_calls < MaxApiCalls
  /\ \E path \in Paths :
       IF \E i \in DOMAIN log_files : configs[log_files[i]].path = path
         THEN /\ last_api' = [op |-> "POST", file_id |-> 0, disable |-> FALSE, status |-> 400,
                              target |-> 0]
              /\ UNCHANGED <<configs, log_files, worker_pc>>
         ELSE /\ configs' = Append(configs,
                              [id |-> Len(log_files) + 1, path |-> path,
                               enabled |-> TRUE, auto_monitor |-> FALSE])
              /\ log_files' = Append(log_files, Len(configs) + 1)
              /\ worker_pc' = Append(worker_pc, "waiting")
              /\ last_api' = [op |-> "POST", file_id |-> Len(log_files) + 1, disable |-> FALSE,
                              status |-> 200, target |-> Len(configs) + 1]
  /\ api_calls' = api_calls + 1
  /\ UNCHANGED <<ctl_pc, last_emit>>
  /\ UNCHANGED <<extVars, now, tail_ticks, alertOnly, storeVars, checkerVars, callVars,
                 tailerVars, queueVars>>

\* PUT /api/monitored-files/<file_id>
update_monitored_file ==
  /\ ctl_pc = "running"
  /\ api_calls < MaxApiCalls
  /\ \E file_id \in FileIds, data \in UpdateData :
       LET file_index == FindFile(log_files, configs, file_id)
           object == IF file_index = 0 THEN 0 ELSE log_files[file_index]
       IN IF file_index = 0
            THEN /\ last_api' = [op |-> "PUT", file_id |-> file_id,
                                 disable |-> data.has_enabled /\ ~data.enabled,
                                 status |-> 404, target |-> 0]
                 /\ UNCHANGED configs
          ELSE IF UpdateRejected(configs[object], data)
            THEN /\ last_api' = [op |-> "PUT", file_id |-> file_id,
                                 disable |-> data.has_enabled /\ ~data.enabled,
                                 status |-> 400, target |-> object]
                 /\ UNCHANGED configs
          ELSE /\ configs' = IF data.has_enabled
                               THEN [configs EXCEPT
                                       ![object].enabled = data.enabled]
                               ELSE configs
               /\ last_api' = [op |-> "PUT", file_id |-> file_id,
                                 disable |-> data.has_enabled /\ ~data.enabled,
                               status |-> 200, target |-> object]
  /\ api_calls' = api_calls + 1
  /\ UNCHANGED <<ctl_pc, log_files, worker_pc, last_emit>>
  /\ UNCHANGED <<extVars, now, tail_ticks, alertOnly, storeVars, checkerVars, callVars,
                 tailerVars, queueVars>>

\* DELETE /api/monitored-files/<file_id>: the entry is popped from the list;
\* its thread is not stopped.
delete_monitored_file ==
  /\ ctl_pc = "running"
  /\ api_calls < MaxApiCalls
  /\ \E file_id \in FileIds :
       LET file_index == FindFile(log_files, configs, file_id)
           object == IF file_index = 0 THEN 0 ELSE log_files[file_index]
       IN IF file_index = 0
            THEN /\ last_api' = [op |-> "DELETE", file_id |-> file_id, disable |-> FALSE,
                                 status |-> 404, target |-> 0]
                 /\ UNCHANGED log_files
          ELSE IF DeleteRejected(configs[object])
            THEN /\ last_api' = [op |-> "DELETE", file_id |-> file_id, disable |-> FALSE,
                                 status |-> 400, target |-> object]
                 /\ UNCHANGED log_files
          ELSE /\ log_files' = SubSeq(log_files, 1, file_index - 1)
                                 \o SubSeq(log_files, file_index + 1,
                                           Len(log_files))
               /\ last_api' = [op |-> "DELETE", file_id |-> file_id, disable |-> FALSE,
                               status |-> 200, target |-> object]
  /\ api_calls' = api_calls + 1
  /\ UNCHANGED <<ctl_pc, configs, worker_pc, last_emit>>
  /\ UNCHANGED <<extVars, now, tail_ticks, alertOnly, storeVars, checkerVars, callVars,
                 tailerVars, queueVars>>

\* _monitor_loop(log_file_config): the file exists, it is opened at its end
WorkerOpen ==
  /\ ctl_pc = "running"
  /\ \E object \in DOMAIN worker_pc :
       /\ worker_pc[object] = "waiting"
       /\ worker_pc' = [worker_pc EXCEPT ![object] = "tailing"]
  /\ UNCHANGED <<ctl_pc, configs, log_files, last_api, last_emit, api_calls>>
  /\ UNCHANGED <<extVars, now, tail_ticks, alertOnly, storeVars, checkerVars, callVars,
                 tailerVars, queueVars>>

\* _monitor_loop(log_file_config), one iteration that finds a new error
\* line: the thread tests the stop flag and its own dict's 'enabled', then
\* reads, classifies, checks suppression and publishes.
WorkerEmit ==
  /\ ctl_pc = "running"
  /\ \E object \in DOMAIN worker_pc :
       /\ worker_pc[object] = "tailing"
       /\ configs[object].enabled
       /\ last_emit' = [object |-> object,
                        listed |-> Listed(log_files, object)]
  /\ UNCHANGED <<ctl_pc, configs, log_files, worker_pc, last_api, api_calls>>
  /\ UNCHANGED <<extVars, now, tail_ticks, alertOnly, storeVars, checkerVars, callVars,
                 tailerVars, queueVars>>

InitControl ==
  /\ ctl_pc = "new"
  /\ configs = <<>>
  /\ log_files = <<>>
  /\ worker_pc = <<>>
  /\ last_api = NoApi
  /\ last_emit = NoEmit
  /\ api_calls = 0

\* ------------------------------------------------------------------------
\* telemetry_ws.py: disk and network rates of TelemetryCollector
\* ------------------------------------------------------------------------
MaxSnapshots == 3    \* number of snapshots the collector takes

MB == 1048576        \* 1024**2

\* Seconds between the end of a snapshot and the disk reading of the next
Intervals == {10, 20}

\* Seconds between the time.time() of _collect_disk and the time.time() of
\* _collect_network in one snapshot (0: the clock has not ticked)
Gaps == {0, 1}

\* Growth of the counters between two readings
DiskGrowth == { [read_bytes |-> 0, write_bytes |-> 0],
                [read_bytes |-> MB, write_bytes |-> 2 * MB] }
NetGrowth == { [bytes_sent |-> 0, bytes_recv |-> 0],
               [bytes_sent |-> MB, bytes_recv |-> 2 * MB] }

NoDisk == [read_bytes |-> -1, write_bytes |-> -1]     \* _last_disk = None
NoNet == [bytes_sent |-> -1, bytes_recv |-> -1]       \* _last_net = None

\* round(bytes / (1024**2) / time_delta, 2), in hundredths of MB per second
MbPerSec(bytes, time_delta) ==
  (200 * bytes + MB * time_delta) \div (2 * MB * time_delta)

\* _collect_disk: the I/O rates and the fields it leaves in the collector
_collect_disk(last_disk, last_time, io, current_time) ==
  LET have == last_disk # NoDisk /\ last_time # 0
      time_delta == current_time - last_time
  IN [ read_mb_per_sec |->
         IF have THEN MbPerSec(io.read_bytes - last_disk.read_bytes, time_delta)
         ELSE 0,
       write_mb_per_sec |->
         IF have THEN MbPerSec(io.write_bytes - last_disk.write_bytes, time_delta)
         ELSE 0,
       last_disk |-> io,
       last_time |-> current_time ]

\* _collect_network: a zero time_delta raises ZeroDivisionError, which the
\* function catches: it returns zeros and leaves _last_net as it was
_collect_network(last_net, last_time, io, current_time) ==
  LET have == last_net # NoNet /\ last_time # 0
      time_delta == current_time - last_time
  IN IF have /\ time_delta = 0
       THEN [ bytes_sent_mb_per_sec |-> 0, bytes_recv_mb_per_sec |-> 0,
              last_net |-> last_net ]
     ELSE [ bytes_sent_mb_per_sec |->
              IF have THEN MbPerSec(io.bytes_sent - last_net.bytes_sent, time_delta)
              ELSE 0,
            bytes_recv_mb_per_sec |->
              IF have THEN MbPerSec(io.bytes_recv - last_net.bytes_recv, time_delta)
              ELSE 0,
            last_net |-> io ]

NoReading == [disk |-> NoDisk, disk_time |-> 0, net |-> NoNet, net_time |-> 0]

\* collect_all_metrics: _collect_disk, then _collect_network
collect_all_metrics ==
  /\ snapshots < MaxSnapshots
  /\ \E i \in Intervals, g \in Gaps, dg \in DiskGrowth, ng \in NetGrowth :
       LET disk_now == [read_bytes |-> disk_io.read_bytes + dg.read_bytes,
                        write_bytes |-> disk_io.write_bytes + dg.write_bytes]
           net_now == [bytes_sent |-> net_io.bytes_sent + ng.bytes_sent,
                       bytes_recv |-> net_io.bytes_recv + ng.bytes_recv]
           disk_time == collector_time + i
           net_time == disk_time + g
       IN \E disk \in {_collect_disk(_last_disk, _last_time, disk_now, disk_time)} :
          \E network \in {_collect_network(_last_net, disk.last_time, net_now,
                                             net_time)} :
            /\ disk_io' = disk_now
            /\ net_io' = net_now
            /\ collector_time' = net_time
            /\ _last_disk' = disk.last_disk
            /\ _last_time' = disk.last_time
            /\ _last_net' = network.last_net
            /\ rates' = [read_mb_per_sec |-> disk.read_mb_per_sec,
                         write_mb_per_sec |-> disk.write_mb_per_sec,
                         bytes_sent_mb_per_sec |-> network.bytes_sent_mb_per_sec,
                         bytes_recv_mb_per_sec |-> network.bytes_recv_mb_per_sec]
            /\ reading' = [disk |-> disk_now, disk_time |-> disk_time,
                           net |-> net_now, net_time |-> net_time]
            /\ prev_reading' = reading
            /\ snapshots' = snapshots + 1
  /\ UNCHANGED <<baseVars, configVars, thresholdVars, shutdownVars,
                 peerVars,
                 threadVars,
                 feedbackVars,
                 spikeVars,
                 retryVars,
                 closingVars,
                 processVars>>

InitRates ==
  /\ disk_io = [read_bytes |-> MB, write_bytes |-> MB]
  /\ net_io = [bytes_sent |-> MB, bytes_recv |-> MB]
  /\ collector_time = 1
  /\ _last_disk = NoDisk
  /\ _last_net = NoNet
  /\ _last_time = 0
  /\ rates = [read_mb_per_sec |-> 0, write_mb_per_sec |-> 0,
              bytes_sent_mb_per_sec |-> 0, bytes_recv_mb_per_sec |-> 0]
  /\ reading = NoReading
  /\ prev_reading = NoReading
  /\ snapshots = 0

\* ------------------------------------------------------------------------
\* config_store.py: ConfigStore, and the /api/config routes
\* ------------------------------------------------------------------------
MaxConfigOps == 4    \* number of operations on the configuration store

\* A JSON value: a string (leaf), an object (dict) or None
EmptyItems == [key \in {} |-> 0]
Leaf(v) == [kind |-> "leaf", v |-> v, items |-> EmptyItems]
Dict(items) == [kind |-> "dict", v |-> "", items |-> items]
None == [kind |-> "none", v |-> "", items |-> EmptyItems]

\* The 'logging.level' and 'alerts.thresholds.cpu_critical.threshold'
\* entries of DEFAULT_CONFIG
DEFAULT_CONFIG ==
  "logging" :> Dict("level" :> Leaf("INFO"))
  @@ "alerts" :> Dict("thresholds" :>
                   Dict("cpu_critical" :> Dict("threshold" :> Leaf(90))))

\* Contents of the config file and of the backend's settings
DocWarning == "logging" :> Dict("level" :> Leaf("WARNING"))
DocDebug == "logging" :> Dict("level" :> Leaf("DEBUG"))
DocFlat == "logging" :> Leaf("x")
DocCustom == "custom" :> Dict("level" :> Leaf("x"))
FileDocs == {DocWarning, DocFlat, DocCustom}
RemoteDocs == {DocDebug, DocFlat, EmptyItems}

NoFile == [exists |-> FALSE, items |-> EmptyItems]
FileOf(items) == [exists |-> TRUE, items |-> items]

\* "ok": 200 with success true; "not_success": 200 with success false;
\* "unreachable": a requests.RequestException
RemoteStatuses == {"ok", "not_success", "unreachable"}

\* Settings the POST /api/config route is asked to write
Settings == { [key_path |-> <<"logging", "level">>, value |-> Leaf("DEBUG")],
              [key_path |-> <<"custom">>, value |-> Leaf("x")] }

\* Paths read with get()
GetPaths == { <<"logging", "level">>, <<"custom">> }

RECURSIVE _deep_merge(_, _)
_deep_merge(base, updates) ==
  [key \in DOMAIN base \cup DOMAIN updates |->
     IF key \notin DOMAIN updates THEN base[key]
     ELSE IF /\ key \in DOMAIN base
             /\ base[key].kind = "dict"
             /\ updates[key].kind = "dict"
       THEN Dict(_deep_merge(base[key].items, updates[key].items))
     ELSE updates[key]]

RECURSIVE GetFrom(_, _)
GetFrom(value, keys) ==
  IF keys = <<>> THEN value
  ELSE IF value.kind = "dict" /\ Head(keys) \in DOMAIN value.items
    THEN GetFrom(value.items[Head(keys)], Tail(keys))
  ELSE None

\* ConfigStore.get(key_path), default None
get(cfg, key_path) == GetFrom(Dict(cfg), key_path)

\* ConfigStore.set raises TypeError when the parent of the last key is not
\* a dict
RECURSIVE SetRaises(_, _)
SetRaises(items, keys) ==
  /\ Len(keys) > 1
  /\ Head(keys) \in DOMAIN items
  /\ \/ items[Head(keys)].kind # "dict"
     \/ SetRaises(items[Head(keys)].items, Tail(keys))

RECURSIVE set(_, _, _)
set(items, keys, value) ==
  LET key == Head(keys)
      child == IF key \in DOMAIN items THEN items[key] ELSE Dict(EmptyItems)
  IN [k \in DOMAIN items \cup {key} |->
        IF k # key THEN items[k]
        ELSE IF Len(keys) = 1 THEN value
        ELSE Dict(set(child.items, Tail(keys), value))]

\* _calculate_diff, as the set of [path, old, new] of its result
RECURSIVE _calculate_diff(_, _, _)
_calculate_diff(old, new, path) ==
  UNION { IF key \notin DOMAIN old
            THEN {[path |-> Append(path, key), old |-> None, new |-> new[key]]}
          ELSE IF old[key] # new[key]
            THEN IF old[key].kind = "dict" /\ new[key].kind = "dict"
                   THEN _calculate_diff(old[key].items, new[key].items,
                                        Append(path, key))
                 ELSE {[path |-> Append(path, key), old |-> old[key],
                        new |-> new[key]]}
          ELSE {} : key \in DOMAIN new }
  \cup { [path |-> Append(path, key), old |-> old[key], new |-> None] :
           key \in DOMAIN old \ DOMAIN new }

\* reload(): the change set, from old_config to the loaded configuration
ChangesFromDefaults(old, new) == _calculate_diff(DEFAULT_CONFIG, new, <<>>)

Changes(old, new) == _calculate_diff(old, new, <<>>)

\* load(), step 1: the config file is merged into self.config
LoadFile(cfg, file) ==
  IF file.exists THEN _deep_merge(cfg, file.items) ELSE cfg

\* load(), step 3 (sync_from_backend, _load_cache): the configuration and
\* the cache file it leaves
LoadBackend(cfg, status, remote, cache) ==
  IF status = "ok"
    THEN LET merged == _deep_merge(cfg, remote)
         IN [config |-> merged, cache |-> FileOf(merged)]
  ELSE IF status = "unreachable" /\ cache.exists
    THEN [config |-> _deep_merge(cfg, cache.items), cache |-> cache]
  ELSE [config |-> cfg, cache |-> cache]

\* apply_config_changes: the logger's level after the changes; a new value
\* of 'logging.level' without upper() raises and ends the application
apply_config_changes(level, changes) ==
  LET mine == {c \in changes : c.path = <<"logging", "level">>}
  IN IF mine = {} THEN level
     ELSE LET c == CHOOSE c \in mine : TRUE
          IN IF c.new.kind # "leaf" THEN level
             ELSE IF c.new.v \in {"DEBUG", "INFO", "WARNING", "ERROR"}
               THEN c.new.v
             ELSE "INFO"

NoReload == [quiet |-> FALSE, before |-> EmptyItems, file |-> NoFile,
             status |-> "none", remote |-> EmptyItems, cache |-> NoFile,
             changes |-> {}, first_changes |-> {}]

\* POST /api/config with one setting: set, then save (which can fail)
update_configuration ==
  /\ config_ops < MaxConfigOps
  /\ reload_pc = "idle"
  /\ \E setting \in Settings, saved \in BOOLEAN :
       IF SetRaises(config, setting.key_path)
         THEN UNCHANGED <<config, config_file>>
       ELSE /\ config' = set(config, setting.key_path, setting.value)
            /\ config_file' = IF saved THEN FileOf(config') ELSE config_file
  /\ quiet' = FALSE
  /\ config_ops' = config_ops + 1
  /\ UNCHANGED <<cache_file, remote_config, remote_status, reload_pc,
                 old_config, log_level, last_changes, last_reload, gets>>
  /\ UNCHANGED <<baseVars, ratesVars, thresholdVars, shutdownVars,
                 peerVars,
                 threadVars,
                 feedbackVars,
                 spikeVars,
                 retryVars,
                 closingVars,
                 processVars>>

\* The operator rewrites or removes the config file
EditFile ==
  /\ config_ops < MaxConfigOps
  /\ reload_pc = "idle"
  /\ \E file \in {NoFile} \cup {FileOf(doc) : doc \in FileDocs} :
       /\ file # config_file
       /\ config_file' = file
  /\ quiet' = FALSE
  /\ config_ops' = config_ops + 1
  /\ UNCHANGED <<config, cache_file, remote_config, remote_status, reload_pc,
                 old_config, log_level, last_changes, last_reload, gets>>
  /\ UNCHANGED <<baseVars, ratesVars, thresholdVars, shutdownVars,
                 peerVars,
                 threadVars,
                 feedbackVars,
                 spikeVars,
                 retryVars,
                 closingVars,
                 processVars>>

\* The backend's settings for the node, or its availability, change
EditRemote ==
  /\ config_ops < MaxConfigOps
  /\ reload_pc = "idle"
  /\ \E doc \in RemoteDocs, status \in RemoteStatuses :
       /\ <<doc, status>> # <<remote_config, remote_status>>
       /\ remote_config' = doc
       /\ remote_status' = status
  /\ quiet' = FALSE
  /\ config_ops' = config_ops + 1
  /\ UNCHANGED <<config, config_file, cache_file, reload_pc, old_config,
                 log_level, last_changes, last_reload, gets>>
  /\ UNCHANGED <<baseVars, ratesVars, thresholdVars, shutdownVars,
                 peerVars,
                 threadVars,
                 feedbackVars,
                 spikeVars,
                 retryVars,
                 closingVars,
                 processVars>>

\* POST /api/config/reload, up to the merge of the config file
reload_begin ==
  /\ config_ops < MaxConfigOps
  /\ reload_pc = "idle"
  /\ reload_pc' = "loading"
  /\ old_config' = config
  /\ config' = LoadFile(config, config_file)
  /\ gets' = {}
  /\ config_ops' = config_ops + 1
  /\ UNCHANGED <<config_file, cache_file, remote_config, remote_status,
                 log_level, last_changes, quiet, last_reload>>
  /\ UNCHANGED <<baseVars, ratesVars, thresholdVars, shutdownVars,
                 peerVars,
                 threadVars,
                 feedbackVars,
                 spikeVars,
                 retryVars,
                 closingVars,
                 processVars>>

\* A get() in another thread while the reload is between its two merges
get_during_reload ==
  /\ reload_pc = "loading"
  /\ \E key_path \in GetPaths :
       LET g == [key_path |-> key_path, value |-> get(config, key_path)]
       IN /\ g \notin gets
          /\ gets' = gets \cup {g}
  /\ UNCHANGED <<config, config_file, cache_file, remote_config,
                 remote_status, reload_pc, old_config, log_level,
                 last_changes, quiet, last_reload, config_ops>>
  /\ UNCHANGED <<baseVars, ratesVars, thresholdVars, shutdownVars,
                 peerVars,
                 threadVars,
                 feedbackVars,
                 spikeVars,
                 retryVars,
                 closingVars,
                 processVars>>

\* POST /api/config/reload, from the backend sync to apply_config_changes
reload_finish ==
  /\ reload_pc = "loading"
  /\ \E loaded \in {LoadBackend(config, remote_status, remote_config,
                                 cache_file)} :
     \E changes \in {Changes(old_config, loaded.config)} :
       /\ config' = loaded.config
       /\ cache_file' = loaded.cache
       /\ last_changes' = changes
       /\ log_level' = apply_config_changes(log_level, changes)
       /\ last_reload' = [quiet |-> quiet, before |-> old_config,
                          file |-> config_file, status |-> remote_status,
                          remote |-> remote_config, cache |-> cache_file,
                          changes |-> changes,
                          first_changes |-> last_changes]
  /\ reload_pc' = "idle"
  /\ quiet' = TRUE
  /\ UNCHANGED <<config_file, remote_config, remote_status, old_config, gets,
                 config_ops>>
  /\ UNCHANGED <<baseVars, ratesVars, thresholdVars, shutdownVars,
                 peerVars,
                 threadVars,
                 feedbackVars,
                 spikeVars,
                 retryVars,
                 closingVars,
                 processVars>>

\* ------------------------------------------------------------------------
\* Alert thresholds: the config store's value and the value the checks use
\* ------------------------------------------------------------------------
MaxCpuChecks == 2    \* number of check_cpu_alert calls

CpuThresholdPath == <<"alerts", "thresholds", "cpu_critical", "threshold">>

\* Values the POST /api/config route is asked to write to the threshold
ThresholdSettings == {80, 95}

\* CPU readings handed to check_cpu_alert
CpuReadings == {50, 80, 92}

NoCheck == [cpu |-> 0, time |-> 0]

\* POST /api/config writing the cpu_critical threshold: set, then save
set_threshold ==
  /\ config_ops < MaxConfigOps
  /\ reload_pc = "idle"
  /\ \E value \in ThresholdSettings, saved \in BOOLEAN :
       /\ get(config, CpuThresholdPath) # Leaf(value)
       /\ config' = set(config, CpuThresholdPath, Leaf(value))
       /\ config_file' = IF saved THEN FileOf(config') ELSE config_file
  /\ quiet' = FALSE
  /\ config_ops' = config_ops + 1
  /\ UNCHANGED <<cache_file, remote_config, remote_status, reload_pc,
                 old_config, log_level, last_changes, last_reload, gets>>
  /\ UNCHANGED <<baseVars, ratesVars, thresholdVars, shutdownVars,
                 peerVars,
                 threadVars,
                 feedbackVars,
                 spikeVars,
                 retryVars,
                 closingVars,
                 processVars>>

\* The sampler calls AlertManager.check_cpu_alert on a CPU reading
check_cpu ==
  /\ cpu_checks < MaxCpuChecks
  /\ \E d \in Deltas, cpu \in CpuReadings :
       LET t == now + d
           st == [start |-> alert_start_times, last |-> last_alert_sent,
                  baseline |-> baseline_network, sent |-> alerts_sent,
                  post |-> "created", backend |-> backend_url,
                  results |-> <<>>, raised |-> FALSE]
       IN \E st2 \in {check_cpu_alert(st, cpu, t)} :
            /\ now' = t
            /\ alert_start_times' = st2.start
            /\ last_alert_sent' = st2.last
            /\ alerts_sent' = st2.sent
            /\ post_results' = st2.results
            /\ last_check' = [cpu |-> cpu, time |-> t]
  /\ cpu_checks' = cpu_checks + 1
  /\ UNCHANGED <<baseline_network, samples, last_snapshot, breach_gap,
                 dirty_emits, first_sample, all_cpu_critical, cpu_due>>
  /\ UNCHANGED <<storeVars, checkerVars, callVars, tailerVars, tail_ticks,
                 queueVars, controlVars, ratesVars, configVars, shutdownVars,
                 peerVars,
                 threadVars,
                 feedbackVars,
                 spikeVars,
                 retryVars,
                 closingVars,
                 processVars>>

InitThresholds ==
  /\ cpu_checks = 0
  /\ last_check = NoCheck

\* ------------------------------------------------------------------------
\* log_collector_daemon.py: the worker loops and stop()
\* ------------------------------------------------------------------------
Monitors == {1, 2}   \* the tailer threads

MaxBatch == 2        \* snapshots a dequeue hands to the poster

\* _monitor_loop: "while not os.path.exists(path) and not stop_flag"
WaitingForFileIgnoresStop(exists, stop) == ~exists

WaitingForFile(exists, stop) == ~exists /\ ~stop

\* One step of a tailer thread.  Every sleep, read and publish returns.
monitor_step(m) ==
  /\ monitor_pc[m] # "exited"
  /\ \E next \in
        CASE monitor_pc[m] = "wait_guard" ->
               IF WaitingForFile(path_exists[m], _stop_flag)
                 THEN {"wait_sleep"}
               ELSE IF _stop_flag THEN {"exited"}
               ELSE {"loop_guard",     \* the file is opened
                     "exited"}         \* open() raises: the thread ends
          [] monitor_pc[m] = "wait_sleep" -> {"wait_guard"}
          [] monitor_pc[m] = "loop_guard" ->
               IF _stop_flag THEN {"exited"}
               ELSE IF ~file_enabled[m] THEN {"disabled_sleep"}
               ELSE {"read"}
          [] monitor_pc[m] = "disabled_sleep" -> {"loop_guard"}
          [] monitor_pc[m] = "read" ->
               {"idle_sleep",          \* readline() returned nothing
                "handle",              \* a line to match, check and publish
                "exited"}              \* an exception leaves the loop
          [] monitor_pc[m] = "idle_sleep" -> {"loop_guard"}
          [] monitor_pc[m] = "handle" -> {"loop_guard"} :
       monitor_pc' = [monitor_pc EXCEPT ![m] = next]
  /\ UNCHANGED <<_stop_flag, path_exists, file_enabled, heartbeat_pc,
                 poster_pc, snapshots_left, stopped_from>>
  /\ UNCHANGED <<baseVars, ratesVars, configVars, thresholdVars,
                 peerVars,
                 threadVars,
                 feedbackVars,
                 spikeVars,
                 retryVars,
                 closingVars,
                 processVars>>

\* One step of the heartbeat thread
heartbeat_step ==
  /\ heartbeat_pc # "exited"
  /\ heartbeat_pc' =
       CASE heartbeat_pc = "guard" -> IF _stop_flag THEN "exited" ELSE "post"
         [] heartbeat_pc = "post" -> "wait"
         [] heartbeat_pc = "wait" -> "guard"
  /\ UNCHANGED <<_stop_flag, path_exists, file_enabled, monitor_pc,
                 poster_pc, snapshots_left, stopped_from>>
  /\ UNCHANGED <<baseVars, ratesVars, configVars, thresholdVars,
                 peerVars,
                 threadVars,
                 feedbackVars,
                 spikeVars,
                 retryVars,
                 closingVars,
                 processVars>>

\* One step of the telemetry poster thread
poster_step ==
  /\ poster_pc # "exited"
  /\ CASE poster_pc = "guard" ->
            /\ poster_pc' = IF _stop_flag THEN "exited" ELSE "dequeue"
            /\ UNCHANGED snapshots_left
       [] poster_pc = "dequeue" ->
            \E n \in 0..MaxBatch :
              /\ snapshots_left' = n
              /\ poster_pc' = IF n = 0 THEN "sleep" ELSE "post"
       [] poster_pc = "post" ->
            /\ snapshots_left' = snapshots_left - 1
            /\ poster_pc' = IF snapshots_left = 1 THEN "sleep" ELSE "post"
       [] poster_pc = "sleep" ->
            /\ poster_pc' = "guard"
            /\ UNCHANGED snapshots_left
  /\ UNCHANGED <<_stop_flag, path_exists, file_enabled, monitor_pc,
                 heartbeat_pc, stopped_from>>
  /\ UNCHANGED <<baseVars, ratesVars, configVars, thresholdVars,
                 peerVars,
                 threadVars,
                 feedbackVars,
                 spikeVars,
                 retryVars,
                 closingVars,
                 processVars>>

\* LogCollectorDaemon.stop(): the flag is set (the joins time out)
stop ==
  /\ ~_stop_flag
  /\ _stop_flag' = TRUE
  /\ stopped_from' = {monitor_pc[m] : m \in Monitors}
                       \cap {"wait_sleep", "disabled_sleep"}
  /\ UNCHANGED <<path_exists, file_enabled, monitor_pc, heartbeat_pc,
                 poster_pc, snapshots_left>>
  /\ UNCHANGED <<baseVars, ratesVars, configVars, thresholdVars,
                 peerVars,
                 threadVars,
                 feedbackVars,
                 spikeVars,
                 retryVars,
                 closingVars,
                 processVars>>

\* A monitored file is created
FileAppears(m) ==
  /\ ~path_exists[m]
  /\ path_exists' = [path_exists EXCEPT ![m] = TRUE]
  /\ UNCHANGED <<_stop_flag, file_enabled, monitor_pc, heartbeat_pc,
                 poster_pc, snapshots_left, stopped_from>>
  /\ UNCHANGED <<baseVars, ratesVars, configVars, thresholdVars,
                 peerVars,
                 threadVars,
                 feedbackVars,
                 spikeVars,
                 retryVars,
                 closingVars,
                 processVars>>

\* The control API enables or disables a monitored file
ToggleEnabled(m) ==
  /\ file_enabled' = [file_enabled EXCEPT ![m] = ~@]
  /\ UNCHANGED <<_stop_flag, path_exists, monitor_pc, heartbeat_pc,
                 poster_pc, snapshots_left, stopped_from>>
  /\ UNCHANGED <<baseVars, ratesVars, configVars, thresholdVars,
                 peerVars,
                 threadVars,
                 feedbackVars,
                 spikeVars,
                 retryVars,
                 closingVars,
                 processVars>>

\* start(): the threads are created; no monitored file exists yet
InitShutdown ==
  /\ _stop_flag = FALSE
  /\ path_exists = [m \in Monitors |-> FALSE]
  /\ file_enabled = [m \in Monitors |-> TRUE]
  /\ monitor_pc = [m \in Monitors |-> "wait_guard"]
  /\ heartbeat_pc = "guard"
  /\ poster_pc = "guard"
  /\ snapshots_left = 0
  /\ stopped_from = {}

\* ------------------------------------------------------------------------
\* livelogs.py and telemetry_ws.py: broadcast to the registered peers
\* ------------------------------------------------------------------------
MaxBroadcasts == 2   \* number of messages broadcast

Peers == 1..3        \* websocket connections

Servers == {"livelogs", "telemetry"}

\* tail_and_broadcast: "for r in to_remove: CLIENTS.discard(r)"
DiscardNone(registered, removed) == registered

Discard(registered, removed) == registered \ removed

\* main_async / start_server: the server starts
serve ==
  /\ server = "none"
  /\ \E kind \in Servers : server' = kind
  /\ UNCHANGED <<clients, link, bc_pc, message, pending, to_remove, attempts,
                 failed_at, targets>>
  /\ UNCHANGED <<baseVars, ratesVars, configVars, thresholdVars, shutdownVars,
                 threadVars,
                 feedbackVars,
                 spikeVars,
                 retryVars,
                 closingVars,
                 processVars>>

\* ws_handler / handler: a peer connects and is registered
connect(p) ==
  /\ server # "none"
  /\ link[p] = "new"
  /\ link' = [link EXCEPT ![p] = "open"]
  /\ clients' = clients \cup {p}
  /\ UNCHANGED <<server, bc_pc, message, pending, to_remove, attempts,
                 failed_at, targets>>
  /\ UNCHANGED <<baseVars, ratesVars, configVars, thresholdVars, shutdownVars,
                 threadVars,
                 feedbackVars,
                 spikeVars,
                 retryVars,
                 closingVars,
                 processVars>>

\* The peer's connection breaks; the server has not noticed yet
break_link(p) ==
  /\ link[p] = "open"
  /\ link' = [link EXCEPT ![p] = "broken"]
  /\ UNCHANGED <<server, clients, bc_pc, message, pending, to_remove,
                 attempts, failed_at, targets>>
  /\ UNCHANGED <<baseVars, ratesVars, configVars, thresholdVars, shutdownVars,
                 threadVars,
                 feedbackVars,
                 spikeVars,
                 retryVars,
                 closingVars,
                 processVars>>

\* ws_handler / handler: the receive loop of a broken connection ends and
\* its finally clause deregisters the peer
handler_exit(p) ==
  /\ link[p] = "broken"
  /\ link' = [link EXCEPT ![p] = "closed"]
  /\ clients' = clients \ {p}
  /\ UNCHANGED <<server, bc_pc, message, pending, to_remove, attempts,
                 failed_at, targets>>
  /\ UNCHANGED <<baseVars, ratesVars, configVars, thresholdVars, shutdownVars,
                 threadVars,
                 feedbackVars,
                 spikeVars,
                 retryVars,
                 closingVars,
                 processVars>>

\* tail_and_broadcast, a line was read: "for ws in list(CLIENTS)";
\* broadcast_telemetry: gather(send_to_client(client) for client in clients)
broadcast_begin ==
  /\ server # "none"
  /\ bc_pc = "idle"
  /\ message < MaxBroadcasts
  /\ message' = message + 1
  /\ pending' = clients
  /\ to_remove' = {}
  /\ targets' = [targets EXCEPT ![message + 1] = clients]
  /\ bc_pc' = "sending"
  /\ UNCHANGED <<server, clients, link, attempts, failed_at>>
  /\ UNCHANGED <<baseVars, ratesVars, configVars, thresholdVars, shutdownVars,
                 threadVars,
                 feedbackVars,
                 spikeVars,
                 retryVars,
                 closingVars,
                 processVars>>

\* The send to one peer of the running broadcast.  livelogs: a failed peer
\* is closed and noted in to_remove; telemetry: send_to_client unregisters
\* it at once.
broadcast_send(p) ==
  /\ bc_pc = "sending"
  /\ p \in pending
  /\ pending' = pending \ {p}
  /\ attempts' = [attempts EXCEPT ![p] = @ \cup {message}]
  /\ IF link[p] = "open"
       THEN UNCHANGED <<clients, link, to_remove, failed_at>>
       ELSE /\ failed_at' = [failed_at EXCEPT ![p] = message]
            /\ IF server = "livelogs"
                 THEN /\ to_remove' = to_remove \cup {p}
                      /\ link' = [link EXCEPT ![p] = "closed"]
                      /\ UNCHANGED clients
                 ELSE /\ clients' = Discard(clients, {p})
                      /\ UNCHANGED <<link, to_remove>>
  /\ UNCHANGED <<server, bc_pc, message, targets>>
  /\ UNCHANGED <<baseVars, ratesVars, configVars, thresholdVars, shutdownVars,
                 threadVars,
                 feedbackVars,
                 spikeVars,
                 retryVars,
                 closingVars,
                 processVars>>

\* The broadcast ends; livelogs discards the peers noted in to_remove
broadcast_end ==
  /\ bc_pc = "sending"
  /\ pending = {}
  /\ clients' = Discard(clients, to_remove)
  /\ to_remove' = {}
  /\ bc_pc' = "idle"
  /\ UNCHANGED <<server, link, message, pending, attempts, failed_at,
                 targets>>
  /\ UNCHANGED <<baseVars, ratesVars, configVars, thresholdVars, shutdownVars,
                 threadVars,
                 feedbackVars,
                 spikeVars,
                 retryVars,
                 closingVars,
                 processVars>>

InitPeers ==
  /\ server = "none"
  /\ clients = {}
  /\ link = [p \in Peers |-> "new"]
  /\ bc_pc = "idle"
  /\ message = 0
  /\ pending = {}
  /\ to_remove = {}
  /\ attempts = [p \in Peers |-> {}]
  /\ failed_at = [p \in Peers |-> 0]
  /\ targets = [m \in 1..(MaxBroadcasts + 1) |-> {}]

\* ------------------------------------------------------------------------
\* suppression_checker.py called from several _monitor_loop threads
\* ------------------------------------------------------------------------
MaxChecks == 3       \* calls of should_suppress, over all threads
MaxWallTicks == 1    \* clock advances

\* LogCollectorDaemon.start: one monitor thread per log file, all calling
\* the one suppression_checker
Threads == {1, 2}

\* The active rows of suppression_rules, before and after a rule is added
RulesBefore ==
  << [id |-> 1, match_text |-> <<"disk">>, node_ip |-> "NULL",
      expires_at |-> 0] >>

RulesAfter ==
  RulesBefore \o << [id |-> 2, match_text |-> <<"error">>,
                     node_ip |-> NodeId, expires_at |-> 0] >>

\* Error lines handed to should_suppress
CheckLines == { <<"ERROR", "Disk">>, <<"ERROR", "Component">> }

NoLocals ==
  [pc |-> "idle", error_message |-> <<>>, rows |-> <<>>, list |-> 0,
   index |-> 0, result |-> "none"]

\* should_suppress up to the refresh test: total_checks += 1 and
\* _should_refresh_cache()
begin_check(t) ==
  /\ thread[t].pc = "idle"
  /\ checks_made < MaxChecks
  /\ \E line \in CheckLines :
       thread' = [thread EXCEPT ![t] =
         [NoLocals EXCEPT
            !.error_message = line,
            !.pc = IF _should_refresh_cache([none |-> _rules_cache = 0],
                                            _cache_timestamp, wall)
                     THEN "execute" ELSE "test"]]
  /\ checks_made' = checks_made + 1
  /\ UNCHANGED <<_rules_cache, _cache_timestamp, lists, selected, wall,
                 suppressed_made, matched, wall_ticks, complete>>
  /\ UNCHANGED <<baseVars, ratesVars, configVars, thresholdVars, shutdownVars,
                 peerVars,
                 feedbackVars,
                 spikeVars,
                 retryVars,
                 closingVars,
                 processVars>>

\* _load_rules: cursor() and execute(query).  When it raises, the handler
\* gives a cache that was None an empty list.
execute(t) ==
  /\ thread[t].pc = "execute"
  /\ \E outcome \in {"ok", "raise"} :
       IF outcome = "ok"
         THEN /\ thread' = [thread EXCEPT ![t].pc = "clear",
                                          ![t].rows = selected]
              /\ complete' = complete \cup {selected}
              /\ UNCHANGED <<_rules_cache, lists>>
         ELSE /\ thread' = [thread EXCEPT ![t].pc = "test"]
              /\ IF _rules_cache = 0
                   THEN /\ lists' = Append(lists, <<>>)
                        /\ _rules_cache' = Len(lists) + 1
                        /\ complete' = complete \cup {<<>>}
                   ELSE UNCHANGED <<_rules_cache, lists, complete>>
  /\ UNCHANGED <<_cache_timestamp, selected, wall, checks_made,
                 suppressed_made, matched, wall_ticks>>
  /\ UNCHANGED <<baseVars, ratesVars, configVars, thresholdVars, shutdownVars,
                 peerVars,
                 feedbackVars,
                 spikeVars,
                 retryVars,
                 closingVars,
                 processVars>>

\* _load_rules: "self._rules_cache = []", then cursor.fetchall().  When
\* fetchall raises, the handler keeps the list just made.
clear(t) ==
  /\ thread[t].pc = "clear"
  /\ lists' = Append(lists, <<>>)
  /\ _rules_cache' = Len(lists) + 1
  /\ \E outcome \in {"ok", "raise"} :
       IF outcome = "ok"
         THEN /\ thread' = [thread EXCEPT ![t].pc = "append"]
              /\ UNCHANGED complete
         ELSE /\ thread' = [thread EXCEPT ![t].pc = "test", ![t].rows = <<>>]
              /\ complete' = complete \cup {<<>>}
  /\ UNCHANGED <<_cache_timestamp, selected, wall, checks_made,
                 suppressed_made, matched, wall_ticks>>
  /\ UNCHANGED <<baseVars, ratesVars, configVars, thresholdVars, shutdownVars,
                 peerVars,
                 feedbackVars,
                 spikeVars,
                 retryVars,
                 closingVars,
                 processVars>>

\* _load_rules: one "self._rules_cache.append({...})" of the loop over the
\* fetched rows
append(t) ==
  /\ thread[t].pc = "append"
  /\ thread[t].rows # <<>>
  /\ lists' = [lists EXCEPT ![_rules_cache] = Append(@, Head(thread[t].rows))]
  /\ thread' = [thread EXCEPT ![t].rows = Tail(@)]
  /\ UNCHANGED <<_rules_cache, _cache_timestamp, selected, wall, checks_made,
                 suppressed_made, matched, wall_ticks, complete>>
  /\ UNCHANGED <<baseVars, ratesVars, configVars, thresholdVars, shutdownVars,
                 peerVars,
                 feedbackVars,
                 spikeVars,
                 retryVars,
                 closingVars,
                 processVars>>

\* _load_rules: "self._cache_timestamp = datetime.now()" after the loop
stamp(t) ==
  /\ thread[t].pc = "append"
  /\ thread[t].rows = <<>>
  /\ _cache_timestamp' = wall
  /\ thread' = [thread EXCEPT ![t].pc = "test"]
  /\ UNCHANGED <<_rules_cache, lists, selected, wall, checks_made,
                 suppressed_made, matched, wall_ticks, complete>>
  /\ UNCHANGED <<baseVars, ratesVars, configVars, thresholdVars, shutdownVars,
                 peerVars,
                 feedbackVars,
                 spikeVars,
                 retryVars,
                 closingVars,
                 processVars>>

\* should_suppress: "if not self._rules_cache: return False, None", else
\* the for loop takes an iterator of the list the attribute refers to
test(t) ==
  /\ thread[t].pc = "test"
  /\ IF _rules_cache = 0 \/ lists[_rules_cache] = <<>>
       THEN thread' = [thread EXCEPT ![t].pc = "idle", ![t].result = "false"]
       ELSE thread' = [thread EXCEPT ![t].pc = "loop",
                                     ![t].list = _rules_cache,
                                     ![t].index = 0]
  /\ UNCHANGED <<_rules_cache, _cache_timestamp, lists, selected, wall,
                 checks_made, suppressed_made, matched, wall_ticks, complete>>
  /\ UNCHANGED <<baseVars, ratesVars, configVars, thresholdVars, shutdownVars,
                 peerVars,
                 feedbackVars,
                 spikeVars,
                 retryVars,
                 closingVars,
                 processVars>>

\* should_suppress: one turn of "for rule in self._rules_cache", or its end
loop(t) ==
  /\ thread[t].pc = "loop"
  /\ LET cached == lists[thread[t].list]
         i == thread[t].index + 1
     IN IF i > Len(cached)
          THEN /\ thread' = [thread EXCEPT ![t].pc = "idle",
                                           ![t].result = "false"]
               /\ UNCHANGED <<suppressed_made, matched>>
          ELSE IF _matches_rule(thread[t].error_message, NodeId, cached[i])
                    = "match"
            THEN /\ matched' = [matched EXCEPT ![cached[i].id] = @ + 1]
                 /\ suppressed_made' = suppressed_made + 1
                 /\ thread' = [thread EXCEPT ![t].pc = "idle",
                                             ![t].result = "true"]
            ELSE /\ thread' = [thread EXCEPT ![t].index = i]
                 /\ UNCHANGED <<suppressed_made, matched>>
  /\ UNCHANGED <<_rules_cache, _cache_timestamp, lists, selected, wall,
                 checks_made, wall_ticks, complete>>
  /\ UNCHANGED <<baseVars, ratesVars, configVars, thresholdVars, shutdownVars,
                 peerVars,
                 feedbackVars,
                 spikeVars,
                 retryVars,
                 closingVars,
                 processVars>>

\* A rule is added to suppression_rules from outside
add_rule ==
  /\ selected = RulesBefore
  /\ selected' = RulesAfter
  /\ UNCHANGED <<_rules_cache, _cache_timestamp, lists, wall, thread,
                 checks_made, suppressed_made, matched, wall_ticks, complete>>
  /\ UNCHANGED <<baseVars, ratesVars, configVars, thresholdVars, shutdownVars,
                 peerVars,
                 feedbackVars,
                 spikeVars,
                 retryVars,
                 closingVars,
                 processVars>>

\* The TTL of the cache passes
wall_tick ==
  /\ wall_ticks < MaxWallTicks
  /\ wall' = wall + cache_ttl
  /\ wall_ticks' = wall_ticks + 1
  /\ UNCHANGED <<_rules_cache, _cache_timestamp, lists, selected, thread,
                 checks_made, suppressed_made, matched, complete>>
  /\ UNCHANGED <<baseVars, ratesVars, configVars, thresholdVars, shutdownVars,
                 peerVars,
                 feedbackVars,
                 spikeVars,
                 retryVars,
                 closingVars,
                 processVars>>

\* SuppressionRuleChecker.__init__, no monitor thread inside a call
InitThreads ==
  /\ _rules_cache = 0
  /\ _cache_timestamp = 0
  /\ lists = <<>>
  /\ selected = RulesBefore
  /\ wall = 100
  /\ thread = [t \in Threads |-> NoLocals]
  /\ checks_made = 0
  /\ suppressed_made = 0
  /\ matched = [id \in RuleIds |-> 0]
  /\ wall_ticks = 0
  /\ complete = {}

\* ------------------------------------------------------------------------
\* log_collector_daemon.py: the logger 'resolvix', its file handler on
\* LOG_FILE, BackendLogHandler, and the tailer of LOG_FILE
\* ------------------------------------------------------------------------
MaxOwnLog == 6       \* lines of LOG_FILE after which no more line is handled
MaxForeign == 2      \* lines of other monitored files that are handled
MaxNesting == 2      \* nested emit calls before the recursion limit is hit

\* Formatter '%(asctime)s [%(levelname)s] %(message)s', as words
Format(levelname, msg) == <<levelname>> \o msg

\* The messages logged at INFO or above while a line is handled
MsgSendFailed == <<"Failed", "to", "send", "to", "RabbitMQ:", "<exception>">>
MsgLogSent == <<"Log", "sent", "to", "RabbitMQ">>
MsgEntrySent ==
  <<"[label]", "Log", "entry", "sent", "to", "RabbitMQ", "successfully">>
MsgEntryFailed == <<"[label]", "Failed", "to", "send", "log", "to", "RabbitMQ">>
MsgSuppressed ==
  <<"[SUPPRESSED]", "[label]", "Error", "suppressed", "by", "rule:">>
MsgCheckerSuppressed == <<"Error", "suppressed", "by", "rule", "ID">>
MsgCheckError ==
  <<"[SUPPRESSED]", "[label]", "Error", "checking", "suppression", "rules:">>

\* What the logging module does with a record logged while a handler of the
\* same logger is running: it depends on the Python version.
NestedRecords == {"handled", "dropped"}

\* The running account of one handled line: the log file, the connection
\* attempts, the publishes, and the logger.error calls made outside emit
NoHandling == [log |-> <<>>, connects |-> 0, delivered |-> 0, errors |-> 0]

\* logger.info(msg); inside: the call is made from within emit
LogInfo(st, msg, inside, nested) ==
  IF inside /\ nested = "dropped" THEN st
  ELSE [st EXCEPT !.log = Append(@, Format("INFO", msg))]

\* logger.error(msg) made at nesting depth `depth` of emit: the file
\* handler writes the line, BackendLogHandler.emit calls send_to_rabbitmq,
\* which on failure calls logger.error again.
RECURSIVE LogError(_, _, _, _, _)
LogError(st, msg, up, nested, depth) ==
  IF depth > 0 /\ nested = "dropped" THEN st
  ELSE LET written == [st EXCEPT !.log = Append(@, Format("ERROR", msg)),
                                 !.connects = @ + 1,
                                 !.errors = IF depth = 0 THEN @ + 1 ELSE @]
       IN IF up
            THEN LogInfo([written EXCEPT !.delivered = @ + 1], MsgLogSent,
                         TRUE, nested)
          ELSE IF depth < MaxNesting
            THEN LogError(written, MsgSendFailed, up, nested, depth + 1)
          ELSE written

\* _monitor_loop: "success = send_to_rabbitmq(payload)" and the message
\* logged about it
Publish(st, up, nested) ==
  LET tried == [st EXCEPT !.connects = @ + 1]
  IN IF up
       THEN LogInfo(LogInfo([tried EXCEPT !.delivered = @ + 1], MsgLogSent,
                            FALSE, nested),
                    MsgEntrySent, FALSE, nested)
       ELSE LogError(LogError(tried, MsgSendFailed, up, nested, 0),
                     MsgEntryFailed, up, nested, 0)

\* The body of _monitor_loop for one line, given the answer sup of the
\* suppression check
HandleLine(st, line, sup, up, nested) ==
  LET decision == LineDecision(line, sup)
  IN CASE decision = "suppressed" ->
            LogInfo(LogInfo(st, MsgCheckerSuppressed, FALSE, nested),
                    MsgSuppressed, FALSE, nested)
       [] decision = "publish" /\ sup = "raise" ->
            Publish(LogError(st, MsgCheckError, up, nested, 0), up, nested)
       [] decision = "publish" /\ sup # "raise" ->
            Publish(st, up, nested)
       [] OTHER -> st

\* The answers should_suppress can give for a line the loop hands to it
Answers(line) ==
  IF ~HasSelfMarker(line) /\ err_re_search(line)
    THEN {"true", "false", "raise"} ELSE {"none"}

\* The tailer of another monitored file handles a line
read_foreign ==
  /\ foreign_read < MaxForeign
  /\ Len(own_log) < MaxOwnLog
  /\ \E line \in Lines, nested \in NestedRecords :
     \E sup \in Answers(line) :
     \E st \in {HandleLine([NoHandling EXCEPT !.log = own_log], line, sup,
                           rabbit_up, nested)} :
       /\ own_log' = st.log
       /\ last_handling' = [source |-> "foreign",
                            decision |-> LineDecision(line, sup),
                            connects |-> st.connects, errors |-> st.errors,
                            delivered |-> st.delivered, up |-> rabbit_up]
  /\ foreign_read' = foreign_read + 1
  /\ UNCHANGED <<own_fate, rabbit_up>>
  /\ UNCHANGED <<baseVars, ratesVars, configVars, thresholdVars, shutdownVars,
                 peerVars, threadVars,
                 spikeVars,
                 retryVars,
                 closingVars,
                 processVars>>

\* The tailer of LOG_FILE handles the next line of it
read_own ==
  /\ Len(own_fate) < Len(own_log)
  /\ Len(own_log) < MaxOwnLog
  /\ \E line \in {own_log[Len(own_fate) + 1]}, nested \in NestedRecords :
     \E sup \in Answers(line) :
     \E st \in {HandleLine([NoHandling EXCEPT !.log = own_log], line, sup,
                           rabbit_up, nested)} :
       /\ own_log' = st.log
       /\ own_fate' = Append(own_fate, LineDecision(line, sup))
       /\ last_handling' = [source |-> "own",
                            decision |-> LineDecision(line, sup),
                            connects |-> st.connects, errors |-> st.errors,
                            delivered |-> st.delivered, up |-> rabbit_up]
  /\ UNCHANGED <<rabbit_up, foreign_read>>
  /\ UNCHANGED <<baseVars, ratesVars, configVars, thresholdVars, shutdownVars,
                 peerVars, threadVars,
                 spikeVars,
                 retryVars,
                 closingVars,
                 processVars>>

\* RabbitMQ becomes unreachable, or reachable again
rabbit_toggle ==
  /\ rabbit_up' = ~rabbit_up
  /\ UNCHANGED <<own_log, own_fate, foreign_read, last_handling>>
  /\ UNCHANGED <<baseVars, ratesVars, configVars, thresholdVars, shutdownVars,
                 peerVars, threadVars,
                 spikeVars,
                 retryVars,
                 closingVars,
                 processVars>>

\* The tailers have opened their files at the end; nothing handled yet
InitFeedback ==
  /\ own_log = <<>>
  /\ own_fate = <<>>
  /\ rabbit_up = TRUE
  /\ foreign_read = 0
  /\ last_handling = [source |-> "none", decision |-> "none", connects |-> 0,
                      errors |-> 0, delivered |-> 0, up |-> TRUE]

\* ------------------------------------------------------------------------
\* alert_manager.py: check_network_spike once the baseline has samples
\* ------------------------------------------------------------------------
MaxNetSamples == 4   \* samples taken after the baseline was built

\* Bytes sent and received in a sample: steady traffic, or a burst
Traffic == { [sent |-> 1, recv |-> 1], [sent |-> 100, recv |-> 1],
             [sent |-> 1, recv |-> 100] }

NetDeltas == {60, 1800}

\* AlertManager.__init__
NewManager ==
  [start |-> [a \in AlertTypes |-> 0], last |-> [a \in AlertTypes |-> 0],
   baseline |-> [sent |-> 0, recv |-> 0, samples |-> 0], sent |-> <<>>,
   post |-> "created", backend |-> backend_url, results |-> <<>>,
   raised |-> FALSE]

\* The condition of check_network_spike on the baseline that includes the
\* sample
IsSpike(baseline, bytes_sent, bytes_recv) ==
  LET multiplier == ALERT_THRESHOLDS.network_spike.threshold_multiplier
      n == baseline.samples + 1
  IN /\ n >= MinBaselineSamples
     /\ \/ bytes_sent * n > (baseline.sent + bytes_sent) * multiplier
        \/ bytes_recv * n > (baseline.recv + bytes_recv) * multiplier

\* One of the first MinBaselineSamples - 1 sampler cycles, all with steady
\* traffic and one minute apart
build_baseline ==
  /\ manager.baseline.samples < MinBaselineSamples - 1
  /\ manager' = [AlertChecks(manager, Normal, manager_time + 60)
                   EXCEPT !.results = <<>>]
  /\ manager_time' = manager_time + 60
  /\ UNCHANGED <<net_samples, last_traffic>>
  /\ UNCHANGED <<baseVars, ratesVars, configVars, thresholdVars, shutdownVars,
                 peerVars, threadVars, feedbackVars,
                 retryVars,
                 closingVars,
                 processVars>>

\* A sampler cycle: collect_all_metrics runs the alert checks on a snapshot
\* whose other metrics are normal
net_sample ==
  /\ manager.baseline.samples >= MinBaselineSamples - 1
  /\ net_samples < MaxNetSamples
  /\ \E d \in NetDeltas, io \in Traffic :
       /\ manager' = [AlertChecks(manager,
                                  [Normal EXCEPT !.sent = io.sent,
                                                 !.recv = io.recv],
                                  manager_time + d)
                        EXCEPT !.results = <<>>]
       /\ manager_time' = manager_time + d
       /\ last_traffic' = [sent |-> io.sent, recv |-> io.recv,
                           spike |-> IsSpike(manager.baseline, io.sent,
                                             io.recv)]
  /\ net_samples' = net_samples + 1
  /\ UNCHANGED <<baseVars, ratesVars, configVars, thresholdVars, shutdownVars,
                 peerVars, threadVars, feedbackVars,
                 retryVars,
                 closingVars,
                 processVars>>

InitSpike ==
  /\ manager = NewManager
  /\ manager_time = 1
  /\ net_samples = 0
  /\ last_traffic = [sent |-> 0, recv |-> 0, spike |-> FALSE]

\* ------------------------------------------------------------------------
\* _telemetry_post_loop on entries that keep failing
\* ------------------------------------------------------------------------
PostCap == 10         \* the POST and cycle counts are kept up to this value

\* The entries enqueued: one that keeps failing and one behind it
RetryIds == {1, 2}

Capped(n) == IF n < PostCap THEN n + 1 ELSE PostCap

\* enqueue into a queue that is not full
rq_enqueue ==
  /\ rq_next_id \in RetryIds
  /\ rq' = Append(rq, [id |-> rq_next_id, timestamp |-> rq_next_id,
                       retry_count |-> 0])
  /\ rq_next_id' = rq_next_id + 1
  /\ UNCHANGED <<rq_batch, rq_depth, posts, cycles, answered, uncommitted>>
  /\ UNCHANGED <<baseVars, ratesVars, configVars, thresholdVars, shutdownVars,
                 peerVars, threadVars, feedbackVars, spikeVars,
                 closingVars,
                 processVars>>

\* _telemetry_post_loop: a cycle starts with dequeue(limit=10)
rq_dequeue ==
  /\ rq_batch = <<>>
  /\ rq # <<>>
  /\ rq_batch' = dequeue(rq, DequeueLimit)
  /\ rq_depth' = 0
  /\ UNCHANGED <<rq, rq_next_id, posts, cycles, answered, uncommitted>>
  /\ UNCHANGED <<baseVars, ratesVars, configVars, thresholdVars, shutdownVars,
                 peerVars, threadVars, feedbackVars, spikeVars,
                 closingVars,
                 processVars>>

\* _telemetry_post_loop: one POST of the head of the batch and what follows
\* it up to the next POST (post_with_retry calling itself, or mark_sent or
\* mark_failed and the next snapshot)
rq_post ==
  /\ rq_batch # <<>>
  /\ \E response \in Responses, outcome \in {"ok", "fail"} :
       LET snapshot_id == Head(rq_batch).id
           answer == post_with_retry(response,
                                     Head(rq_batch).retry_count + rq_depth)
           op == CASE answer = "True" -> "mark_sent"
                   [] answer = "False" -> "mark_failed"
                   [] OTHER -> "none"
       IN /\ outcome = "fail" => op # "none"
          /\ rq' = CASE op = "none" \/ outcome = "fail" -> rq
                     [] op = "mark_sent" -> mark_sent(rq, snapshot_id)
                     [] OTHER -> mark_failed(rq, snapshot_id, max_retries)
          /\ rq_batch' = IF op = "none" THEN rq_batch ELSE Tail(rq_batch)
          /\ rq_depth' = IF op = "none" THEN rq_depth + 1 ELSE 0
          /\ answered' =
               IF post_snapshot(response).error_type
                    \in {"server_error", "connection_error"}
                 THEN answered ELSE answered \cup {snapshot_id}
          /\ posts' = [posts EXCEPT ![snapshot_id] =
                         IF snapshot_id \in answered' THEN 0 ELSE Capped(@)]
          /\ cycles' = [cycles EXCEPT ![snapshot_id] =
                          IF snapshot_id \in answered' THEN 0
                          ELSE IF op = "none" THEN @ ELSE Capped(@)]
          /\ uncommitted' = IF outcome = "fail"
                              THEN uncommitted \cup {snapshot_id}
                              ELSE uncommitted
  /\ UNCHANGED rq_next_id
  /\ UNCHANGED <<baseVars, ratesVars, configVars, thresholdVars, shutdownVars,
                 peerVars, threadVars, feedbackVars, spikeVars,
                 closingVars,
                 processVars>>

InitRetry ==
  /\ rq = <<>>
  /\ rq_next_id = 1
  /\ rq_batch = <<>>
  /\ rq_depth = 0
  /\ posts = [id \in RetryIds |-> 0]
  /\ cycles = [id \in RetryIds |-> 0]
  /\ answered = {}
  /\ uncommitted = {}

\* ------------------------------------------------------------------------
\* log_collector_daemon.py: stop() and the tailers' use of the rule store
\* ------------------------------------------------------------------------
\* _monitor_threads, in the order stop() joins them
Tailers == <<1, 2>>

\* The positions where a tailer is inside a call that can outlast the
\* 2 seconds of thread.join(timeout=2): time.sleep(5),
\* time.sleep(self.interval), the rule query of should_suppress and the
\* blocking connection of send_to_rabbitmq
Outlasting == {"disabled_sleep", "idle_sleep", "should_suppress",
               "send_to_rabbitmq"}

\* One step of the reading loop of _monitor_loop, the file being open
monitor_loop_step(m) ==
  /\ loop_pc[m] # "exited"
  /\ \E next \in
        CASE loop_pc[m] = "loop_guard" ->
               IF stop_set THEN {"exited"}
               ELSE {"disabled_sleep",     \* the file is disabled
                     "readline"}
          [] loop_pc[m] = "disabled_sleep" -> {"loop_guard"}
          [] loop_pc[m] = "readline" ->
               {"idle_sleep",              \* no line
                "loop_guard",              \* own marker or no error keyword
                "should_suppress"}         \* an error line
          [] loop_pc[m] = "idle_sleep" -> {"loop_guard"}
          [] loop_pc[m] = "should_suppress" ->
               {"loop_guard",              \* suppressed
                "send_to_rabbitmq"}        \* not suppressed, or the check
                                           \* raised and the line is sent
          [] loop_pc[m] = "send_to_rabbitmq" -> {"loop_guard"} :
       /\ loop_pc' = [loop_pc EXCEPT ![m] = next]
       /\ late' = IF stop_pc = "returned"
                     /\ next \in {"should_suppress", "send_to_rabbitmq"}
                    THEN late \cup {next}
                    ELSE late
  /\ UNCHANGED <<stop_set, stop_pc, join_index, db_open>>
  /\ UNCHANGED <<baseVars, ratesVars, configVars, thresholdVars,
                 shutdownVars, peerVars, threadVars, feedbackVars,
                 spikeVars, retryVars,
                 processVars>>

\* One step of stop(): set the flag; join each tailer for at most 2 seconds;
\* (join the heartbeat, stop the child processes;) close db_connection;
\* return.  A join returns when its thread has exited, or after 2 seconds
\* with the thread still inside a call that lasts longer.
stop_step ==
  /\ CASE stop_pc = "running" ->
            /\ stop_set' = TRUE
            /\ stop_pc' = "join"
            /\ join_index' = 1
            /\ UNCHANGED db_open
       [] stop_pc = "join" ->
            /\ loop_pc[Tailers[join_index]] \in Outlasting \cup {"exited"}
            /\ IF join_index < Len(Tailers)
                 THEN /\ join_index' = join_index + 1
                      /\ UNCHANGED stop_pc
                 ELSE /\ stop_pc' = "close"
                      /\ UNCHANGED join_index
            /\ UNCHANGED <<stop_set, db_open>>
       [] stop_pc = "close" ->
            /\ db_open' = FALSE
            /\ stop_pc' = "returned"
            /\ UNCHANGED <<stop_set, join_index>>
       [] stop_pc = "returned" -> FALSE
  /\ UNCHANGED <<loop_pc, late>>
  /\ UNCHANGED <<baseVars, ratesVars, configVars, thresholdVars,
                 shutdownVars, peerVars, threadVars, feedbackVars,
                 spikeVars, retryVars,
                 processVars>>

\* start() has run: the tailers are in their loops, the connection is open
InitClosing ==
  /\ stop_set = FALSE
  /\ loop_pc = [m \in 1..Len(Tailers) |-> "loop_guard"]
  /\ stop_pc = "running"
  /\ join_index = 0
  /\ db_open = TRUE
  /\ late = {}

\* ------------------------------------------------------------------------
\* log_collector_daemon.py: start and stop of the live-stream children
\* ------------------------------------------------------------------------
MaxSpawns == 3       \* child processes spawned

Kinds == {"livelogs", "telemetry"}

NoControl == [cmd |-> "none", kind |-> "none", was_alive |-> FALSE,
              ok |-> FALSE, info |-> "none"]

\* The children of <kind> that have not exited
AliveOf(children, kind) == {c \in children : c.kind = kind}

\* "self._live_proc and self._live_proc.poll() is None"
Running(proc, children, kind) ==
  proc # 0 /\ [kind |-> kind, pid |-> proc] \in children

\* start_livelogs / start_telemetry, the lock held throughout: already
\* running, script missing, Popen raises, or the child is spawned
StartChild(kind) ==
  /\ \E script_exists \in BOOLEAN, popen \in {"spawned", "raised"} :
       IF Running(procs[kind], alive, kind)
         THEN /\ last_control' =
                   [cmd |-> "start", kind |-> kind,
                    was_alive |-> AliveOf(alive, kind) # {},
                    ok |-> FALSE, info |-> "already_running"]
              /\ UNCHANGED <<procs, alive, next_pid>>
       ELSE IF ~script_exists \/ popen = "raised"
         THEN /\ last_control' =
                   [cmd |-> "start", kind |-> kind,
                    was_alive |-> AliveOf(alive, kind) # {},
                    ok |-> FALSE,
                    info |-> IF ~script_exists THEN "missing"
                             ELSE "spawn_error"]
              /\ UNCHANGED <<procs, alive, next_pid>>
       ELSE /\ next_pid <= MaxSpawns
            /\ procs' = [procs EXCEPT ![kind] = next_pid]
            /\ alive' = alive \cup {[kind |-> kind, pid |-> next_pid]}
            /\ next_pid' = next_pid + 1
            /\ last_control' =
                 [cmd |-> "start", kind |-> kind,
                  was_alive |-> AliveOf(alive, kind) # {},
                  ok |-> TRUE, info |-> "pid"]
  /\ UNCHANGED <<baseVars, ratesVars, configVars, thresholdVars,
                 shutdownVars, peerVars, threadVars, feedbackVars,
                 spikeVars, retryVars, closingVars>>

\* stop_livelogs / stop_telemetry, the lock held throughout: nothing to
\* stop; or terminate, wait 3 s, kill, wait 3 s: the child exits, or a
\* call raises (the second wait times out) and the child lives on.  The
\* finally clause forgets the process either way.
StopChild(kind) ==
  /\ \E result \in {"exited", "raised"} :
       IF ~Running(procs[kind], alive, kind)
         THEN /\ procs' = [procs EXCEPT ![kind] = 0]
              /\ last_control' =
                   [cmd |-> "stop", kind |-> kind,
                    was_alive |-> AliveOf(alive, kind) # {},
                    ok |-> FALSE, info |-> "no_active_process"]
              /\ UNCHANGED alive
       ELSE /\ alive' = IF result = "exited"
                          THEN alive \ {[kind |-> kind, pid |-> procs[kind]]}
                          ELSE alive
            /\ procs' = [procs EXCEPT ![kind] = 0]
            /\ last_control' =
                 [cmd |-> "stop", kind |-> kind,
                  was_alive |-> AliveOf(alive, kind) # {},
                  ok |-> result = "exited",
                  info |-> IF result = "exited" THEN "stopped"
                           ELSE "stop_error"]
  /\ UNCHANGED next_pid
  /\ UNCHANGED <<baseVars, ratesVars, configVars, thresholdVars,
                 shutdownVars, peerVars, threadVars, feedbackVars,
                 spikeVars, retryVars, closingVars>>

start_livelogs == StartChild("livelogs")

stop_livelogs == StopChild("livelogs")

start_telemetry == StartChild("telemetry")

stop_telemetry == StopChild("telemetry")

\* A child process ends by itself
child_exits ==
  /\ \E c \in alive : alive' = alive \ {c}
  /\ UNCHANGED <<procs, next_pid, last_control>>
  /\ UNCHANGED <<baseVars, ratesVars, configVars, thresholdVars,
                 shutdownVars, peerVars, threadVars, feedbackVars,
                 spikeVars, retryVars, closingVars>>

\* __init__: "self._live_proc = None", "self._telemetry_proc = None"
InitProcess ==
  /\ procs = [k \in Kinds |-> 0]
  /\ alive = {}
  /\ next_pid = 1
  /\ last_control = NoControl

\* ConfigStore.__init__ with no config file, no cache and the backend
\* unreachable: load() leaves the defaults
InitConfig ==
  /\ config = DEFAULT_CONFIG
  /\ config_file = NoFile
  /\ cache_file = NoFile
  /\ remote_config = EmptyItems
  /\ remote_status = "unreachable"
  /\ reload_pc = "idle"
  /\ old_config = DEFAULT_CONFIG
  /\ log_level = "INFO"
  /\ last_changes = {}
  /\ quiet = FALSE
  /\ last_reload = NoReload
  /\ gets = {}
  /\ config_ops = 0

\* ------------------------------------------------------------------------
\* Specifications: one per subsystem, over the whole state
\* ------------------------------------------------------------------------
vars == <<baseVars, extVars>>

Init ==
  /\ InitAlert /\ InitTail /\ InitQueue /\ InitControl /\ InitRates
  /\ InitConfig /\ InitThresholds /\ InitShutdown /\ InitPeers /\ InitThreads /\ InitFeedback /\ InitSpike /\ InitRetry /\ InitClosing /\ InitProcess

\* The sampler and the alert engine
NextAlert == Sample

SpecAlert == Init /\ [][NextAlert]_vars

\* The telemetry collector's rate fields
NextRates == collect_all_metrics

SpecRates == Init /\ [][NextRates]_vars

\* The configuration store under the control API, the operator and the
\* backend
NextConfig ==
  \/ update_configuration
  \/ EditFile
  \/ EditRemote
  \/ reload_begin
  \/ get_during_reload
  \/ reload_finish

SpecConfig == Init /\ [][NextConfig]_vars

\* The control commands that start and stop the children
NextProcess ==
  \/ start_livelogs
  \/ stop_livelogs
  \/ start_telemetry
  \/ stop_telemetry
  \/ child_exits

SpecProcess == Init /\ [][NextProcess]_vars

\* stop() against the running tailers
NextClosing ==
  \/ \E m \in 1..Len(Tailers) : monitor_loop_step(m)
  \/ stop_step

SpecClosing == Init /\ [][NextClosing]_vars

\* The poster and entries that keep failing
NextRetry ==
  \/ rq_enqueue
  \/ rq_dequeue
  \/ rq_post

SpecRetry == Init /\ [][NextRetry]_vars

\* The alert engine watching network traffic
NextSpike ==
  \/ build_baseline
  \/ net_sample

SpecSpike == Init /\ [][NextSpike]_vars

\* The logger, its handlers and the tailer of the daemon's own log
NextFeedback ==
  \/ read_foreign
  \/ read_own
  \/ rabbit_toggle

SpecFeedback == Init /\ [][NextFeedback]_vars

\* The monitor threads calling the shared suppression checker
NextThreads ==
  \/ \E t \in Threads : begin_check(t)
  \/ \E t \in Threads : execute(t)
  \/ \E t \in Threads : clear(t)
  \/ \E t \in Threads : append(t)
  \/ \E t \in Threads : stamp(t)
  \/ \E t \in Threads : test(t)
  \/ \E t \in Threads : loop(t)
  \/ add_rule
  \/ wall_tick

SpecThreads == Init /\ [][NextThreads]_vars

\* A live-stream server, its peers and its broadcasts
NextPeers ==
  \/ serve
  \/ \E p \in Peers : connect(p)
  \/ \E p \in Peers : break_link(p)
  \/ \E p \in Peers : handler_exit(p)
  \/ broadcast_begin
  \/ \E p \in Peers : broadcast_send(p)
  \/ broadcast_end

SpecPeers == Init /\ [][NextPeers]_vars

\* The CPU alert check while the configured threshold is rewritten
NextThresholds ==
  \/ set_threshold
  \/ check_cpu

SpecThresholds == Init /\ [][NextThresholds]_vars

\* The worker threads and stop()
NextShutdown ==
  \/ \E m \in Monitors : monitor_step(m)
  \/ heartbeat_step
  \/ poster_step
  \/ stop
  \/ \E m \in Monitors : FileAppears(m)
  \/ \E m \in Monitors : ToggleEnabled(m)

SpecShutdown == Init /\ [][NextShutdown]_vars

\* Every thread that can take a step eventually takes one: the scheduler
\* runs each thread and every sleep, read and request returns.
SpecShutdownFair ==
  /\ SpecShutdown
  /\ \A m \in Monitors : WF_vars(monitor_step(m))
  /\ WF_vars(heartbeat_step)
  /\ WF_vars(poster_step)

\* The suppression matcher, called directly, over a changing rule store
NextSuppress ==
  \/ CallShouldSuppress
  \/ InsertRule
  \/ SetRuleEnabled
  \/ DeleteRule
  \/ TailTick

SpecSuppress == Init /\ [][NextSuppress]_vars

\* The tailers, the matcher and the publisher
NextTail ==
  \/ \E s \in Sources : OpenFile(s)
  \/ \E s \in Sources : ReadLine(s)
  \/ \E s \in Sources : AppendLine(s)
  \/ BusToggle
  \/ InsertRule

SpecTail == Init /\ [][NextTail]_vars

\* The telemetry queue between the sampler process and the poster thread
NextQueue ==
  \/ EnqueueCount
  \/ EnqueueWrite
  \/ PosterDequeue
  \/ PosterProcess

SpecQueue == Init /\ [][NextQueue]_vars

\* The list of monitored files, its control API and the tailer threads
NextControl ==
  \/ DaemonInit
  \/ add_monitored_files
  \/ update_monitored_file
  \/ delete_monitored_file
  \/ WorkerOpen
  \/ WorkerEmit

SpecControl == Init /\ [][NextControl]_vars

\* ========================================================================
\* Properties
\* ========================================================================

\* C2: any two emissions of the same rule are separated by at least that
\* rule's cooldown seconds, whatever the samples in between.
C2_CooldownBetweenEmissions ==
  \A i, j \in DOMAIN alerts_sent :
    (i < j /\ alerts_sent[i].alert_type = alerts_sent[j].alert_type)
      => alerts_sent[j].time - alerts_sent[i].time
           >= ALERT_THRESHOLDS[alerts_sent[i].alert_type].cooldown

\* Some rule has emitted twice.
C2_Witness ==
  \E i, j \in DOMAIN alerts_sent :
    i < j /\ alerts_sent[i].alert_type = alerts_sent[j].alert_type

\* C3: a rule with duration > 0 emits only when no sample failing the rule's
\* own condition was observed since the start of the counted breach.
C3_NoEmissionAfterGap ==
  \A a \in dirty_emits : ALERT_THRESHOLDS[a].duration = 0

\* C4: from fresh state, while every sample meets cpu_critical's condition,
\* cpu_critical emits first at the first sample taken at or after
\* first_sample + 300, not before, and not again within 1800 seconds.
CpuCriticalEmissions ==
  SelectSeq(alerts_sent, LAMBDA e : e.alert_type = "cpu_critical")

C4_CpuCriticalSustained ==
  (all_cpu_critical /\ samples > 0) =>
     LET E == CpuCriticalEmissions
     IN /\ cpu_due = 0 => E = <<>>
        /\ cpu_due # 0 =>
             /\ Len(E) >= 1
             /\ E[1].time = cpu_due
             /\ \A k \in 2..Len(E) :
                  E[k].time >= E[1].time + ALERT_THRESHOLDS.cpu_critical.cooldown

\* cpu_critical has emitted once and a later sample, still critical and
\* inside the cooldown, has been taken without a second emission.
C4_Witness ==
  /\ all_cpu_critical
  /\ Len(CpuCriticalEmissions) = 1
  /\ now > cpu_due
  /\ now < cpu_due + ALERT_THRESHOLDS.cpu_critical.cooldown

\* C5: for a rule with duration = 0, from fresh state, the first sample that
\* meets the rule's threshold emits the alert on that same sample.
C5_ImmediateEmission ==
  [][ \A a \in {"disk_critical", "disk_high"} :
        ( /\ samples' = samples + 1
          /\ alert_start_times[a] = 0
          /\ last_alert_sent[a] = 0
          /\ last_snapshot'.disk >= ALERT_THRESHOLDS[a].threshold )
        => /\ Len(alerts_sent') > Len(alerts_sent)
           /\ \E i \in (Len(alerts_sent) + 1)..Len(alerts_sent') :
                /\ alerts_sent'[i].alert_type = a
                /\ alerts_sent'[i].time = now' ]_vars

\* C6: on every sample the critical rule's transition depends only on
\* whether the sample meets the critical threshold and the high rule's only
\* on whether it meets the high threshold: a sample below the critical
\* threshold clears the critical rule's breach_started, a sample at or above
\* the high threshold (at or above the critical one included) advances the
\* high rule, a sample under both clears both.
MetricPairs ==
  { [metric |-> "cpu",    critical |-> "cpu_critical",    high |-> "cpu_high"],
    [metric |-> "memory", critical |-> "memory_critical", high |-> "memory_high"],
    [metric |-> "disk",   critical |-> "disk_critical",   high |-> "disk_high"] }

C6_IndependentEvaluation ==
  [][ samples' = samples + 1 =>
      \A p \in MetricPairs :
        LET v == last_snapshot'[p.metric]
            st == [start |-> alert_start_times, last |-> last_alert_sent,
                   baseline |-> baseline_network, sent |-> alerts_sent,
                   post |-> "created", backend |-> backend_url,
                   results |-> <<>>, raised |-> FALSE]
            adv == _handle_threshold_alert(st, p.high, v, now')
        IN v # -1 =>
           /\ v < ALERT_THRESHOLDS[p.critical].threshold
                => alert_start_times'[p.critical] = 0
           /\ v < ALERT_THRESHOLDS[p.high].threshold
                => alert_start_times'[p.high] = 0
           /\ v >= ALERT_THRESHOLDS[p.high].threshold
                => /\ alert_start_times'[p.high] = adv.start[p.high]
                   /\ last_alert_sent'[p.high] = adv.last[p.high] ]_vars

\* C7 (as claimed): should_suppress(L, N) returns true iff the rule store
\* at that moment holds an enabled, non-expired rule that applies to (L, N).
C7_MatchesStoreAtCall ==
  last_call.result \in {"true", "false"}
    => ((last_call.result = "true") <=> last_call.store_match)

\* C7 (amended): should_suppress(L, N) returns true iff the rule cache it
\* uses (after its refresh step) holds a rule that applies to (L, N); when
\* the call itself reloaded the cache successfully, that is the case iff the
\* store at that moment holds an enabled, non-expired rule that applies.
C7_MatchesCacheAtCall ==
  last_call.result \in {"true", "false"}
    => /\ (last_call.result = "true") <=> last_call.cache_match
       /\ last_call.reloaded
            => (last_call.cache_match <=> last_call.store_match)

\* A call suppressed a line through a cached rule although the store, at
\* that moment, held no enabled, non-expired rule applying to it.
C7_Witness ==
  /\ last_call.result = "true"
  /\ ~last_call.store_match
  /\ ~last_call.reloaded

\* C8 (as claimed): a call returning (true, R) increases R's match_count by
\* exactly 1 and changes no other; a call returning false changes none.
C8_CountsEveryMatch ==
  [][ total_checks' = total_checks + 1 =>
        IF last_call'.result = "true"
          THEN /\ suppression_rules[last_call'.rule].present
               /\ suppression_rules' =
                    [suppression_rules EXCEPT
                       ![last_call'.rule].match_count = @ + 1]
          ELSE suppression_rules' = suppression_rules ]_vars

\* C8 (amended): a call returning (true, R) whose counter update commits
\* increases the match_count of R's row, if the row still exists, by exactly
\* 1 and changes no other row; when the update fails, or in a call that does
\* not return true, no match_count changes.
C8_CountsCommittedMatch ==
  [][ total_checks' = total_checks + 1 =>
        IF /\ last_call'.result = "true"
           /\ last_call'.updated
           /\ suppression_rules[last_call'.rule].present
          THEN suppression_rules' =
                 [suppression_rules EXCEPT
                    ![last_call'.rule].match_count = @ + 1]
          ELSE suppression_rules' = suppression_rules ]_vars

\* The last call suppressed through a rule and its update committed; the
\* rule has now been counted twice.
C8_Witness ==
  \E id \in RuleIds :
    /\ suppression_rules[id].present
    /\ suppression_rules[id].match_count = 2
    /\ last_call.result = "true"
    /\ last_call.rule = id
    /\ last_call.updated

\* Messages on the bus that carry line k of source s
BusCopies(s, k) ==
  Cardinality({i \in DOMAIN bus :
                 bus[i].log_path = s /\ bus[i].line_no = k})

\* C9: when the suppression check of an emitted line raises, the tailer
\* treats the line as not suppressed, goes on to publish it (the bus holds
\* it when the broker is up) and keeps tailing.
C9_FailOpen ==
  \A s \in Sources : \A k \in DOMAIN fate[s] :
    fate[s][k].check = "raise" =>
      /\ fate[s][k].decision = "publish"
      /\ fate[s][k].bus_up => /\ fate[s][k].sent
                              /\ BusCopies(s, fate[s][k].line_no) = 1
      /\ tail_pc[s] = "tailing"

\* The check of some line raised while the broker was up.
C9_Witness ==
  \E s \in Sources : \E k \in DOMAIN fate[s] :
    fate[s][k].check = "raise" /\ fate[s][k].bus_up

\* C1: every line read by the tailer of an enabled source that matches the
\* error-keyword regex, with the broker up, is either suppressed by exactly
\* one rule (and not published) or on the bus exactly once.
C1_SuppressedOrPublishedOnce ==
  \A s \in Sources : \A k \in DOMAIN fate[s] :
    LET f == fate[s][k]
    IN (err_re_search(files[s][f.line_no]) /\ f.bus_up) =>
         \/ /\ f.decision = "suppressed"
            /\ f.rule \in RuleIds
            /\ BusCopies(s, f.line_no) = 0
         \/ /\ f.decision = "publish"
            /\ BusCopies(s, f.line_no) = 1

\* C10: from an empty queue, under every interleaving of enqueue (sampler
\* process) with dequeue, mark_sent and mark_failed (poster thread), the
\* number of stored entries never exceeds max_size.
C10_SizeBounded == Len(tq) <= QueueMaxSize

\* The queue is at its cap after more enqueues than the cap, and holds an
\* entry that the poster has failed to send.
C10_Witness ==
  /\ Len(tq) = QueueMaxSize
  /\ tq_next_id > QueueMaxSize + 1
  /\ \E i \in DOMAIN tq : tq[i].retry_count > 0

\* The step is a successful write transaction of enqueue
EnqueueWritten == tq_next_id' = tq_next_id + 1

\* The row that enqueue inserts
NewRow == [id |-> tq_next_id, timestamp |-> enq_timestamp, retry_count |-> 0]

\* C11: enqueue on a queue holding exactly max_size entries removes exactly
\* the entry that was enqueued earliest and appends the new one; every other
\* entry is retained and the size stays max_size.
C11_DropsEarliestEnqueued ==
  [][ (EnqueueWritten /\ Len(tq) = QueueMaxSize)
        => tq' = Append(Tail(tq), NewRow) ]_vars

Min(a, b) == IF a <= b THEN a ELSE b

\* C12: dequeue(limit) returns the min(limit, size) entries enqueued
\* earliest, in the order of their enqueueing, whatever their timestamps.
C12_DequeueFIFO ==
  [][ (batch = <<>> /\ batch' # <<>>)
        => batch' = [i \in 1..Min(DequeueLimit, Len(tq)) |->
                       [id |-> tq[i].id, retry_count |-> tq[i].retry_count]]
    ]_vars

\* The step is a POST by the poster; it ran mark_sent / mark_failed
Posted == batch # <<>> /\ (batch' # batch \/ post_depth' # post_depth)
MarkedSent == Posted /\ last_post'.op = "mark_sent"
MarkedFailed == Posted /\ last_post'.op = "mark_failed"

Stored(rows, id) == \E i \in DOMAIN rows : rows[i].id = id

\* C13 (as claimed): mark_sent(id) for an id obtained from dequeue removes
\* exactly that entry and decreases the size by exactly 1, under every
\* interleaving with enqueue.
C13_MarkSentRemovesOne ==
  [][ MarkedSent => /\ Stored(tq, last_post'.id)
                    /\ tq' = DeleteId(tq, last_post'.id)
                    /\ Len(tq') = Len(tq) - 1 ]_vars

\* C13 (amended): a mark_sent(id) whose DELETE commits while the entry is
\* still stored removes exactly that entry (size - 1, every other entry
\* kept); when an enqueue at the cap has already dropped the entry, or the
\* DELETE fails, the queue is left unchanged.
C13_MarkSentRemovesIfStored ==
  [][ MarkedSent =>
        IF last_post'.outcome = "ok" /\ Stored(tq, last_post'.id)
          THEN /\ tq' = DeleteId(tq, last_post'.id)
               /\ Len(tq') = Len(tq) - 1
          ELSE tq' = tq ]_vars

\* A mark_sent committed for an entry that an enqueue at the cap had dropped
\* after the dequeue, on a queue that still holds other entries.
C13_Witness ==
  /\ last_post.op = "mark_sent"
  /\ last_post.outcome = "ok"
  /\ ~last_post.present
  /\ tq # <<>>

\* No entry that stays in the queue has its retry count decreased
RetryMonotonic ==
  \A i \in DOMAIN tq : \A j \in DOMAIN tq' :
    tq[i].id = tq'[j].id => tq'[j].retry_count >= tq[i].retry_count

C15_Any2xxIsSuccess ==
  [][ (Posted /\ last_post'.status \in 200..299) =>
        /\ last_post'.op = "mark_sent"
        /\ last_post'.outcome = "ok" => ~Stored(tq', last_post'.id) ]_vars

\* C16: on a 4xx answer the poster removes the entry in the same cycle
\* through mark_sent, whatever its retry count.
C16_ClientErrorDrops ==
  [][ (Posted /\ last_post'.status \in 400..499) =>
        /\ last_post'.op = "mark_sent"
        /\ last_post'.outcome = "ok" => ~Stored(tq', last_post'.id) ]_vars

\* C17: after a transient failure (5xx, no response) the poster calls
\* mark_failed before any further POST of the entry: one POST per cycle, and
\* the retry count grows by 1 with each transient failure.
C17_MarkFailedBeforeNextPost ==
  [][ (Posted /\ (last_post'.status >= 500 \/ last_post'.status = NoResponse))
        => /\ last_post'.op = "mark_failed"
           /\ last_post'.depth = 0
           /\ (last_post'.outcome = "ok" /\ Stored(tq', last_post'.id))
                => RetryCountOf(tq', last_post'.id)
                     = last_post'.retry_before + 1 ]_vars

AutoMonitored(object) == configs[object].auto_monitor

\* The step is a control API request that asks to delete, or to disable,
\* the source whose id it names
AsksRemoval ==
  /\ api_calls' = api_calls + 1
  /\ \/ last_api'.op = "DELETE"
     \/ last_api'.op = "PUT" /\ last_api'.disable

C19_OwnLogAutoMonitored ==
  ctl_pc = "running" =>
    \E i \in DOMAIN log_files :
      /\ configs[log_files[i]].path = DaemonLog
      /\ configs[log_files[i]].auto_monitor

\* C20: after the successful removal of a source through the control API
\* its tailer stops: every line a tailer handles belongs to a source that
\* is in the list.
C20_RemovedSourceSilent == last_emit.object # 0 => last_emit.listed

\* C21: a publish whose first attempt fails rebuilds the connection and
\* attempts once more before reporting failure (exactly two attempts then, at
\* most two always); a successful publish reuses the existing connection.
C21_PublishRetriesOnce ==
  \A s \in Sources : \A k \in DOMAIN fate[s] :
    LET f == fate[s][k]
    IN f.decision = "publish" =>
         /\ f.attempts <= 2
         /\ ~f.bus_up => f.attempts = 2
         /\ (f.sent /\ k > 1 /\ fate[s][k - 1].sent) => f.opened = 0

\* C22: alert emission is fire-and-forget. On every sample the rules' state
\* after the checks is the state the checks produce when the ticket POST
\* succeeds: whatever the POST's outcome (created, non-2xx, timeout,
\* connection error), every rule that fires records last_fired = now and
\* clears breach_started, and the checks of all the other rules on the
\* sample are performed; the checks of the sample give the same state when
\* the manager has no backend URL.
C22_FireAndForget ==
  [][ samples' = samples + 1 =>
      LET st == [start |-> alert_start_times, last |-> last_alert_sent,
                 baseline |-> baseline_network, sent |-> alerts_sent,
                 post |-> "created", backend |-> TRUE, results |-> <<>>,
                 raised |-> FALSE]
          new == (Len(alerts_sent) + 1)..Len(alerts_sent')
      IN \A ok \in {AlertChecks(st, last_snapshot', now')} :
         /\ alert_start_times' = ok.start
         /\ last_alert_sent' = ok.last
         /\ baseline_network' = ok.baseline
         /\ alerts_sent' = ok.sent
         /\ Len(post_results') = Cardinality(new)
         /\ \A i \in new :
              /\ last_alert_sent'[alerts_sent'[i].alert_type] = now'
              /\ alert_start_times'[alerts_sent'[i].alert_type] = 0
         /\ new # {} =>
              \A none \in {AlertChecks([st EXCEPT !.backend = FALSE],
                                       last_snapshot', now')} :
                /\ none.start = ok.start
                /\ none.last = ok.last
                /\ none.baseline = ok.baseline
                /\ none.sent = ok.sent
                /\ ~none.raised ]_vars

\* C22 witness: on the latest sample a rule fired while its POST failed,
\* its last_fired is the time of the sample, its breach_started is cleared,
\* and a rule checked after it fired too.
C22_Witness ==
  /\ Len(post_results) >= 2
  /\ post_results[1] = "failed"
  /\ LET e == alerts_sent[Len(alerts_sent) - Len(post_results) + 1]
     IN /\ last_alert_sent[e.alert_type] = now
        /\ alert_start_times[e.alert_type] = 0

\* C23: on the first snapshot all rate fields are zero; on every later
\* snapshot each rate field is the growth of its counter since the previous
\* snapshot's reading divided by the time elapsed since that reading (for
\* the network rates: since the previous network reading, or the same
\* inter-snapshot time the disk rates use).
C23_RatesOverSnapshotInterval ==
  [][ snapshots' = snapshots + 1 =>
      IF snapshots = 0
        THEN /\ rates'.read_mb_per_sec = 0
             /\ rates'.write_mb_per_sec = 0
             /\ rates'.bytes_sent_mb_per_sec = 0
             /\ rates'.bytes_recv_mb_per_sec = 0
      ELSE LET disk_delta == reading'.disk_time - reading.disk_time
               net_delta == reading'.net_time - reading.net_time
           IN /\ rates'.read_mb_per_sec =
                   MbPerSec(reading'.disk.read_bytes - reading.disk.read_bytes,
                            disk_delta)
              /\ rates'.write_mb_per_sec =
                   MbPerSec(reading'.disk.write_bytes - reading.disk.write_bytes,
                            disk_delta)
              /\ \E dt \in {disk_delta, net_delta} :
                   /\ rates'.bytes_sent_mb_per_sec =
                        MbPerSec(reading'.net.bytes_sent - reading.net.bytes_sent, dt)
                   /\ rates'.bytes_recv_mb_per_sec =
                        MbPerSec(reading'.net.bytes_recv - reading.net.bytes_recv, dt)
    ]_vars

\* C24: when a reload finishes, the configuration is the defaults merged
\* with the config file and then with the backend's settings (with the
\* cache file when the fetch failed), whatever the configuration held in
\* memory before, and the change set is the difference from the
\* configuration held before to that layered configuration.
Layered(file, status, remote, cache) ==
  LET local == LoadFile(DEFAULT_CONFIG, file)
  IN IF status = "ok" THEN _deep_merge(local, remote)
     ELSE IF cache.exists THEN _deep_merge(local, cache.items)
     ELSE local

C24_ReloadIsLayered ==
  [][ (reload_pc = "loading" /\ reload_pc' = "idle") =>
      \A layered \in {Layered(config_file, remote_status, remote_config,
                              cache_file)} :
        /\ config' = layered
        /\ last_changes' = _calculate_diff(old_config, layered, <<>>) ]_vars

\* C25: a reload that follows a reload with nothing in between (same config
\* file, same backend answer, the cache as the first reload left it)
\* returns an empty change set and leaves the configuration, the cache and
\* the logger's level as the first reload left them.
C25_ReloadIdempotent ==
  [][ (reload_pc = "loading" /\ reload_pc' = "idle" /\ quiet) =>
      /\ last_changes' = {}
      /\ config' = old_config
      /\ cache_file' = cache_file
      /\ log_level' = log_level ]_vars

\* C25 witness: a second consecutive reload has finished after a first one
\* that changed the configuration.
C25_Witness ==
  /\ reload_pc = "idle"
  /\ last_reload.quiet
  /\ last_reload.first_changes # {}
  /\ last_reload.changes = {}

\* C30: every get() that ran during a reload returned the value its path
\* has in the configuration before the reload or in the configuration
\* after it.
C30_GetSeesOneConfiguration ==
  [][ (reload_pc = "loading" /\ reload_pc' = "idle") =>
      \A g \in gets :
        g.value \in {get(old_config, g.key_path), get(config', g.key_path)}
    ]_vars

\* C26: every check_cpu_alert call compares the reading against the
\* cpu_critical threshold the config store holds at that moment: a reading
\* at or above it starts the critical rule's breach (when the rule is idle
\* and not cooling down), a reading below it neither starts the breach nor
\* fires the rule.
C26_ThresholdReadFromConfig ==
  [][ cpu_checks' = cpu_checks + 1 =>
      LET threshold == get(config, CpuThresholdPath).v
          cpu == last_check'.cpu
          st == [start |-> alert_start_times, last |-> last_alert_sent]
      IN /\ ( /\ cpu >= threshold
              /\ alert_start_times["cpu_critical"] = 0
              /\ ~InCooldown(st, "cpu_critical", now') )
              => alert_start_times'["cpu_critical"] = now'
         /\ cpu < threshold
              => /\ alert_start_times'["cpu_critical"]
                      \in {0, alert_start_times["cpu_critical"]}
                 /\ last_alert_sent'["cpu_critical"]
                      = last_alert_sent["cpu_critical"] ]_vars

\* C27: once the shutdown flag is set, every tailer, the heartbeat emitter
\* and the telemetry poster eventually exit.
AllExited ==
  /\ \A m \in Monitors : monitor_pc[m] = "exited"
  /\ heartbeat_pc = "exited"
  /\ poster_pc = "exited"

C27_WorkersExit == _stop_flag ~> AllExited

\* C27 witness: stop() ran while one tailer waited for its file and
\* another polled a disabled file, and every worker has exited.
C27_Witness ==
  /\ _stop_flag
  /\ AllExited
  /\ "wait_sleep" \in stopped_from
  /\ "disabled_sleep" \in stopped_from

\* C28: a peer whose send failed in a broadcast is sent no later broadcast
\* and, once that broadcast has ended, is not registered; every finished
\* broadcast was sent to every peer registered when it started; and a peer
\* whose connection is open stays registered.
Finished(m) == m < message \/ (m = message /\ bc_pc = "idle")

C28_FailedPeerPruned ==
  /\ \A p \in Peers :
       failed_at[p] # 0 =>
         /\ \A m \in attempts[p] : m <= failed_at[p]
         /\ Finished(failed_at[p]) => p \notin clients
  /\ \A m \in 1..message :
       Finished(m) => \A p \in targets[m] : m \in attempts[p]
  /\ \A p \in Peers : link[p] = "open" => p \in clients

\* C28 witness: the send of the first broadcast to one peer failed, and
\* another peer was sent that broadcast and the next.
C28_Witness ==
  \E p, q \in Peers :
    /\ failed_at[p] = 1
    /\ p \notin clients
    /\ q # p
    /\ {1, 2} \subseteq attempts[q]
    /\ failed_at[q] = 0
    /\ Finished(2)

\* C29: a should_suppress call that has returned gave the answer that some
\* complete rule set gives for its line: a set that a load was to install,
\* never an empty or partly filled list in between.
C29_CompleteRuleSet ==
  \A t \in Threads :
    thread[t].result # "none" =>
      \E rules \in complete :
        thread[t].result
          = (IF rules = <<>> THEN "false"
             ELSE FirstMatch(rules, 1, thread[t].error_message, NodeId).result)

\* C31: a call of should_suppress whose reload fails leaves the cache as it
\* was before the call (an empty list when nothing was ever loaded) and the
\* timestamp too, so that the next call attempts the reload again.
C31_FailedReloadKeepsCache ==
  [][ ( /\ calls' = calls + 1
        /\ _should_refresh_cache(rules_cache, cache_timestamp, now)
        /\ ~last_call'.reloaded )
      => /\ rules_cache' = (IF rules_cache.none THEN CacheOf(<<>>)
                                                ELSE rules_cache)
         /\ cache_timestamp' = cache_timestamp
         /\ _should_refresh_cache(rules_cache', cache_timestamp', now') ]_vars

\* C32: every line the agent wrote to its own log while handling an emitted
\* line is skipped by the tailer of that log: it is neither checked for
\* suppression nor published.
C32_OwnLinesSkipped ==
  \A i \in DOMAIN own_fate : own_fate[i] \in {"skip_marker", "skip_no_error"}

\* C38: handling one line makes one connection attempt for the publish and
\* one for each error the loop and the publisher log about it; the errors
\* logged inside the log handler's own publish cause no further attempt.
C38_AttemptsBounded ==
  last_handling.connects <= 1 + last_handling.errors

\* C33: a sample that is not a network spike leaves network_spike with no
\* breach start, and emits nothing.
C33_UnderThresholdClearsSpike ==
  [][ (net_samples' = net_samples + 1 /\ ~last_traffic'.spike)
      => /\ manager'.start["network_spike"] = 0
         /\ manager'.sent = manager.sent ]_vars

\* C34: mark_failed returns True exactly when its statements ran and the
\* entry with the given id is in the queue after the call.
C34_MarkFailedReturn ==
  [][ MarkedFailed =>
        ( last_post'.returned = "True"
            <=> (last_post'.outcome = "ok" /\ Stored(tq', last_post'.id)) ) ]_vars

RECURSIVE PostBudget(_)
PostBudget(retry_count) ==
  IF retry_count >= max_retries THEN 0
  ELSE (Len(retry_backoff) + 1 - retry_count) + PostBudget(retry_count + 1)

C37_DistinctIds ==
  \A i, j \in DOMAIN log_files :
    configs[log_files[i]].id = configs[log_files[j]].id => i = j

\* C39: once stop() has closed the rule-store connection no tailer is inside
\* should_suppress, and after stop() has returned no tailer begins a
\* should_suppress call or a publish.
C39_ClosedAfterTailersStopped ==
  /\ ~db_open => \A m \in DOMAIN loop_pc : loop_pc[m] # "should_suppress"
  /\ stop_pc = "returned" => late = {}

\* C40: at most one live-log child and at most one telemetry child is alive,
\* and a start command given while a child of its kind is alive answers
\* already_running.
C40_AtMostOneChild ==
  /\ \A k \in Kinds : Cardinality(AliveOf(alive, k)) <= 1
  /\ (last_control.cmd = "start" /\ last_control.was_alive)
       => last_control.info = "already_running"

====
